---- MODULE Spec2Model ----
(***************************************************************************)
(* Model of the DOCX comment merge engine (mergeDocxAddNativeCommentsInPlace *)
(* and its helpers) and of the merge page handler that calls it.            *)
(*                                                                          *)
(* Strings are sequences of one-character strings.  Offsets reported by the *)
(* code (approxStart, anchorNodeIndex, normToOrig entries) are 0-based as   *)
(* in the source; sequences are 1-based, so position k of the source is     *)
(* element k+1 of the sequence.  JavaScript null for an offset is Null.     *)
(***************************************************************************)
EXTENDS Integers, Sequences, FiniteSets, TLC

\* ------------------------------------------------------------------------
\* Bounds of the model
\* ------------------------------------------------------------------------
MaxRecords == 2

\* ------------------------------------------------------------------------
\* Program constants
\* ------------------------------------------------------------------------
PrefixLen == 80
MinPrefixLen == 12
NeedleCap == 220
MinWindow == 80
MaxWindow == 260
ScanStep == 5
AcceptScore == 60
ExactScore == 98

Null == -1

\* ------------------------------------------------------------------------
\* Strings
\* ------------------------------------------------------------------------
SP == " "
TAB == "\t"
NL == "\n"
\* typographic characters, named by code point
RSQUO == "U+2019"
LSQUO == "U+2018"
MODAP == "U+02BC"
FWAP == "U+FF07"
HRSQ == "U+201B"
LDQUO == "U+201C"
RDQUO == "U+201D"
ENDASH == "U+2013"
EMDASH == "U+2014"
\* a character XML 1.0 cannot carry (JSON can: "\u0000")
NUL == "U+0000"

Max(a, b) == IF a >= b THEN a ELSE b
Min(a, b) == IF a <= b THEN a ELSE b

\* /\s/ on one character
IsSpace(ch) == ch \in {SP, TAB, NL}

\* String.prototype.toLowerCase on one character
ToLowerCase(ch) ==
  CASE ch = "A" -> "a"
    [] ch = "B" -> "b"
    [] ch = "C" -> "c"
    [] OTHER -> ch

\* s.slice(from, to) with 0-based, end-exclusive bounds
Slice(s, from, to) ==
  LET f == Min(Max(from, 0), Len(s))
      t == Min(Max(to, 0), Len(s))
  IN IF t <= f THEN << >> ELSE SubSeq(s, f + 1, t)

\* s from its first character that is not whitespace on
TrimStart(s) ==
  CHOOSE out \in { IF \A k \in 1..Len(x) : IsSpace(x[k]) THEN << >>
                   ELSE SubSeq(x, CHOOSE k \in 1..Len(x) :
                                    ~IsSpace(x[k]) /\ \A j \in 1..(k - 1) : IsSpace(x[j]),
                               Len(x)) : x \in {s} } : TRUE

\* s up to its last character that is not whitespace
TrimEnd(s) ==
  CHOOSE out \in { IF \A k \in 1..Len(x) : IsSpace(x[k]) THEN << >>
                   ELSE SubSeq(x, 1, CHOOSE k \in 1..Len(x) :
                                       ~IsSpace(x[k]) /\ \A j \in (k + 1)..Len(x) : IsSpace(x[j])) :
                   x \in {s} } : TRUE

\* String.prototype.trim
Trim(s) == TrimEnd(TrimStart(s))

\* s.indexOf(needle): 0-based offset of the first occurrence, -1 when none
IndexOf(s, needle) ==
  LET hits == { k \in 0..(Len(s) - Len(needle)) :
                  SubSeq(s, k + 1, k + Len(needle)) = needle }
  IN IF hits = {} THEN -1 ELSE CHOOSE k \in hits : \A j \in hits : k <= j

Includes(s, needle) == IndexOf(s, needle) >= 0

\* text.replace(/\s+/g, " "): every run of whitespace becomes one space.
\* The replacement keeps the characters that are not whitespace and puts
\* one space for the first character of every run of whitespace.
CollapseWs(s) ==
  CHOOSE out \in { LET Starts(k) == ~IsSpace(x[k]) \/ k = 1 \/ ~IsSpace(x[k - 1])
                   IN CHOOSE seq \in { [j \in 1..Len(kept) |-> IF IsSpace(x[kept[j]]) THEN SP ELSE x[kept[j]]] :
                                         kept \in { SelectSeq([k \in 1..Len(x) |-> k], Starts) } } : TRUE :
                   x \in {s} } : TRUE

\* the anchor used as given
cleanAnchorText_raw(text) == text

cleanAnchorText(text) == Trim(CollapseWs(text))

\* ------------------------------------------------------------------------
\* fuzzball.partial_ratio(a, b, {full_process: false})
\* ------------------------------------------------------------------------
\* the running maximum of g over the positions lo..hi, starting from carry;
\* the positions are taken in halves so that long strings need no deep
\* recursion, and the left half is computed before the right half uses it
RECURSIVE RunningMax(_, _, _, _)
RunningMax(g, lo, hi, carry) ==
  IF lo > hi THEN << >>
  ELSE IF lo = hi THEN <<Max(carry, g[lo])>>
  ELSE CHOOSE out \in { left \o RunningMax(g, m + 1, hi, left[Len(left)]) :
                          m \in {(lo + hi) \div 2},
                          left \in {RunningMax(g, lo, (lo + hi) \div 2, carry)} } : TRUE

\* one row of the longest-common-subsequence table, from the previous row:
\* entry j is the largest, over k <= j, of prev[k - 1] + 1 where b[k] = ch
\* and of prev[k] elsewhere
LcsRow(prev, ch, b) ==
  <<0>> \o RunningMax([k \in 1..Len(b) |-> IF b[k] = ch THEN prev[k] + 1 ELSE prev[k + 1]], 1, Len(b), 0)

\* the row of the table after the characters lo..hi of a, from the row
\* before them; the rows are taken in halves, the first half computed
\* before the second uses it
RECURSIVE LcsRows(_, _, _, _, _)
LcsRows(a, b, lo, hi, prev) ==
  IF lo > hi THEN prev
  ELSE IF lo = hi THEN LcsRow(prev, a[lo], b)
  ELSE CHOOSE out \in { LcsRows(a, b, m + 1, hi, mid) :
                          m \in {(lo + hi) \div 2},
                          mid \in {LcsRows(a, b, lo, (lo + hi) \div 2, prev)} } : TRUE

Lcs(a, b) ==
  CHOOSE out \in { LcsRows(x, y, 1, Len(x), [j \in 1..(Len(y) + 1) |-> 0])[Len(y) + 1] :
                     x \in {a}, y \in {b} } : TRUE

\* Levenshtein ratio with substitution cost 2, rounded: Math.round(100 * (lensum - d) / lensum)
Ratio(a, b) ==
  LET lensum == Len(a) + Len(b)
  IN IF a = << >> \/ b = << >> THEN 0
     ELSE (400 * Lcs(a, b) + lensum) \div (2 * lensum)

PartialRatio(s1, s2) ==
  IF s1 = << >> \/ s2 = << >> THEN 0
  ELSE LET shorter == IF Len(s1) <= Len(s2) THEN s1 ELSE s2
           longer == IF Len(s1) <= Len(s2) THEN s2 ELSE s1
           scores == { Ratio(shorter, SubSeq(longer, k + 1, k + Len(shorter))) :
                         k \in 0..(Len(longer) - Len(shorter)) }
       IN CHOOSE m \in scores : \A x \in scores : x <= m

scoreMatch(anchorText, paragraphText) ==
  [score |-> PartialRatio(anchorText, paragraphText), method |-> "partial_ratio"]

\* ------------------------------------------------------------------------
\* Position normalizer
\* ------------------------------------------------------------------------
NormChar(raw) ==
  LET ch == IF raw \in {RSQUO, LSQUO, MODAP, FWAP, HRSQ} THEN "'"
            ELSE IF raw \in {LDQUO, RDQUO} THEN "\""
            ELSE IF raw \in {ENDASH, EMDASH} THEN "-"
            ELSE raw
  IN ToLowerCase(ch)

\* what the loop of normalizeForFuzzyIndexing pushes: one entry for every
\* character that is not whitespace and one for the first character of
\* every run of whitespace, with the 0-based position it was read at
NormLoop(text) ==
  LET Pushes(k) == ~IsSpace(text[k]) \/ k = 1 \/ ~IsSpace(text[k - 1])
  IN CHOOSE out \in { [normalized |-> [j \in 1..Len(pushed) |->
                                         IF IsSpace(text[pushed[j]]) THEN SP ELSE NormChar(text[pushed[j]])],
                       normToOrig |-> [j \in 1..Len(pushed) |-> pushed[j] - 1]] :
                      pushed \in { SelectSeq([k \in 1..Len(text) |-> k], Pushes) } } : TRUE

\* returns the trimmed normalized string and the index map as built by the loop
normalizeForFuzzyIndexing(text) ==
  CHOOSE out \in { [normalized |-> Trim(r.normalized), normToOrig |-> r.normToOrig] :
                     r \in { NormLoop(t) : t \in {text} } } : TRUE

normalizeForFuzzySearch(text) == normalizeForFuzzyIndexing(text).normalized

\* normToOrig[k] ?? null
MapAt(normToOrig, k) == IF k >= 0 /\ k < Len(normToOrig) THEN normToOrig[k + 1] ELSE Null

\* the window scan of findApproxMatchStartIndex from position pos on
RECURSIVE ScanLoop(_, _, _, _, _, _)
ScanLoop(normPara, scanNeedle, windowLen, pos, bestScore, bestPos) ==
  IF pos > Max(0, Len(normPara) - 1) THEN [bestScore |-> bestScore, bestPos |-> bestPos]
  ELSE LET window == Slice(normPara, pos, pos + windowLen) IN
       IF window = << >> THEN [bestScore |-> bestScore, bestPos |-> bestPos]
       ELSE LET score == PartialRatio(scanNeedle, window) IN
            IF score > bestScore
            THEN IF score >= ExactScore
                 THEN [bestScore |-> score, bestPos |-> pos]
                 ELSE ScanLoop(normPara, scanNeedle, windowLen, pos + ScanStep, score, pos)
            ELSE ScanLoop(normPara, scanNeedle, windowLen, pos + ScanStep, bestScore, bestPos)

findApproxMatchStartIndex(paragraphText, anchorText) ==
  LET n == normalizeForFuzzyIndexing(paragraphText)
      normPara == n.normalized
      normToOrig == n.normToOrig
      normAnchor == normalizeForFuzzySearch(anchorText)
      direct == IndexOf(normPara, normAnchor)
      prefix == Trim(Slice(normAnchor, 0, PrefixLen))
      idx == IndexOf(normPara, prefix)
      scanNeedle == IF Len(normAnchor) > NeedleCap THEN Slice(normAnchor, 0, NeedleCap) ELSE normAnchor
      windowLen == Min(Max(Len(scanNeedle), MinWindow), MaxWindow)
      scan == ScanLoop(normPara, scanNeedle, windowLen, 0, 0, -1)
  IN IF normAnchor = << >> THEN Null
     ELSE IF direct >= 0 THEN MapAt(normToOrig, direct)
     ELSE IF Len(prefix) >= MinPrefixLen /\ idx >= 0 THEN MapAt(normToOrig, idx)
     ELSE IF scan.bestPos >= 0 /\ scan.bestScore >= AcceptScore THEN MapAt(normToOrig, scan.bestPos)
     ELSE Null

\* ------------------------------------------------------------------------
\* XML trees
\* ------------------------------------------------------------------------
\* An element is [ns, tag, text, id, desc]: desc lists its descendant
\* elements in document order (the order a TreeWalker visits them), text is
\* the textContent of a w:t, id the w:id attribute of a comment marker.
W_NS == "w"
OTHER_NS == "x"

Leaf(ns, tag, text, id) == [ns |-> ns, tag |-> tag, text |-> text, id |-> id, desc |-> << >>]
El(ns, tag, desc) == [ns |-> ns, tag |-> tag, text |-> << >>, id |-> 0, desc |-> desc]

WT(text) == Leaf(W_NS, "t", text, 0)
Run(text) == El(W_NS, "r", <<WT(text)>>)

\* a run that holds no text
createSpaceRun_empty == El(W_NS, "r", << >>)

createSpaceRun == El(W_NS, "r", <<WT(<<SP>>)>>)

\* a styled run without the reference in it
createCommentReferenceRun_noReference(commentId) ==
  El(W_NS, "r", <<Leaf(W_NS, "rPr", << >>, 0), Leaf(W_NS, "rStyle", << >>, 0)>>)

createCommentReferenceRun(commentId) ==
  El(W_NS, "r", <<Leaf(W_NS, "rPr", << >>, 0), Leaf(W_NS, "rStyle", << >>, 0),
                  Leaf(W_NS, "commentReference", << >>, commentId)>>)

RangeStart(commentId) == Leaf(W_NS, "commentRangeStart", << >>, commentId)
RangeEnd(commentId) == Leaf(W_NS, "commentRangeEnd", << >>, commentId)

\* what one visited element adds to the extracted text
TextOf(el) ==
  IF el.ns # W_NS THEN << >>
  ELSE IF el.tag = "t" THEN el.text
  ELSE IF el.tag = "tab" THEN <<TAB>>
  ELSE IF el.tag \in {"br", "cr"} THEN <<NL>>
  ELSE << >>

RECURSIVE ConcatText(_)
ConcatText(els) ==
  IF els = << >> THEN << >> ELSE TextOf(Head(els)) \o ConcatText(Tail(els))

\* the elements a TreeWalker rooted at a paragraph visits: every child, each
\* followed by its descendants
RECURSIVE Walk(_)
Walk(children) ==
  IF children = << >> THEN << >>
  ELSE <<Head(children)>> \o Head(children).desc \o Walk(Tail(children))

getParagraphText(paragraph) == ConcatText(Walk(paragraph))

\* the walker is rooted at the node and visits its descendants only
getChildTextLength(node) == Len(ConcatText(node.desc))

\* runs that hold a comment reference are taken for anchors too
IsCandidate_refRunsToo(el) ==
  /\ el.ns = W_NS
  /\ el.tag \notin {"pPr", "commentRangeStart", "commentRangeEnd"}

IsCandidate(el) ==
  /\ el.ns = W_NS
  /\ el.tag \notin {"pPr", "commentRangeStart", "commentRangeEnd"}
  /\ ~(el.tag = "r" /\ \E k \in 1..Len(el.desc) :
                          el.desc[k].ns = W_NS /\ el.desc[k].tag = "commentReference")

\* positions (1-based, in the paragraph's child sequence) of the eligible children, in order
RECURSIVE CandidatePositions(_, _)
CandidatePositions(paragraph, k) ==
  IF k > Len(paragraph) THEN << >>
  ELSE (IF IsCandidate(paragraph[k]) THEN <<k>> ELSE << >>) \o CandidatePositions(paragraph, k + 1)

getDirectChildAnchorCandidates(paragraph) ==
  LET pos == CandidatePositions(paragraph, 1)
  IN [c \in 1..Len(pos) |-> paragraph[pos[c]]]

\* spans as long as the text of the child, an element without text taking none
RECURSIVE CandidateLoop_textOnly(_, _, _, _)
CandidateLoop_textOnly(candidates, offset, i, cursor) ==
  IF i >= Len(candidates) THEN Len(candidates) - 1
  ELSE LET nodeLen == getChildTextLength(candidates[i + 1]) IN
       IF offset < cursor + nodeLen THEN i
       ELSE CandidateLoop_textOnly(candidates, offset, i + 1, cursor + nodeLen)

RECURSIVE CandidateLoop(_, _, _, _)
CandidateLoop(candidates, offset, i, cursor) ==
  IF i >= Len(candidates) THEN Len(candidates) - 1
  ELSE LET nodeLen == getChildTextLength(candidates[i + 1]) IN
       IF offset < cursor + Max(1, nodeLen) THEN i
       ELSE CandidateLoop(candidates, offset, i + 1, cursor + Max(1, nodeLen))

findBestAnchorCandidateIndexForOffset(paragraph, offset) ==
  LET candidates == getDirectChildAnchorCandidates(paragraph)
  IN IF Len(candidates) = 0 THEN 0 ELSE CandidateLoop(candidates, offset, 0, 0)

\* the child sequence with els inserted after position k (k = 0: at the front)
InsertAt(paragraph, k, els) ==
  SubSeq(paragraph, 1, k) \o els \o SubSeq(paragraph, k + 1, Len(paragraph))

\* no run synthesized: the markers appended one after the other
insertCommentAnchorIntoParagraph_noAnchor(paragraph, commentId, anchorIndex) ==
  LET pos == CandidatePositions(paragraph, 1)
      hasTarget == anchorIndex >= 0 /\ anchorIndex < Len(pos)
      at == IF hasTarget THEN pos[anchorIndex + 1] ELSE Len(paragraph) + 1
      withStart == InsertAt(paragraph, at - 1, <<RangeStart(commentId)>>)
      withEnd == InsertAt(withStart, IF hasTarget THEN at + 1 ELSE at, <<RangeEnd(commentId)>>)
  IN InsertAt(withEnd, IF hasTarget THEN at + 2 ELSE at + 1, <<createCommentReferenceRun(commentId)>>)

\* the range end inserted before the anchor node instead of after it
insertCommentAnchorIntoParagraph_endFirst(paragraph, commentId, anchorIndex) ==
  LET pos == CandidatePositions(paragraph, 1)
      hasTarget == anchorIndex >= 0 /\ anchorIndex < Len(pos)
      withAnchor == IF hasTarget THEN paragraph ELSE Append(paragraph, createSpaceRun)
      at == IF hasTarget THEN pos[anchorIndex + 1] ELSE Len(withAnchor)
      withStart == InsertAt(withAnchor, at - 1, <<RangeStart(commentId)>>)
      withEnd == InsertAt(withStart, at, <<RangeEnd(commentId)>>)
  IN InsertAt(withEnd, at + 1, <<createCommentReferenceRun(commentId)>>)

\* the paragraph's children after the three insertions around the anchor node
insertCommentAnchorIntoParagraph(paragraph, commentId, anchorIndex) ==
  LET pos == CandidatePositions(paragraph, 1)
      hasTarget == anchorIndex >= 0 /\ anchorIndex < Len(pos)
      withAnchor == IF hasTarget THEN paragraph ELSE Append(paragraph, createSpaceRun)
      at == IF hasTarget THEN pos[anchorIndex + 1] ELSE Len(withAnchor)
      withStart == InsertAt(withAnchor, at - 1, <<RangeStart(commentId)>>)
      withEnd == InsertAt(withStart, at + 1, <<RangeEnd(commentId)>>)
  IN InsertAt(withEnd, at + 2, <<createCommentReferenceRun(commentId)>>)

\* A paragraph can sit inside a child of another paragraph (the content of a
\* text box inside a run). getElementsByTagNameNS lists it right after the
\* paragraph that holds it, and being one node of the tree, what is inserted
\* into it is from then on among the descendants of that child. Here the
\* descendants of such a child end with the w:p and what the w:p holds.
Nests(el) == \E m \in 1..Len(el.desc) : el.desc[m].ns = W_NS /\ el.desc[m].tag = "p"

\* the document after paragraph q (1-based) was given new children
SetParagraph(doc, q, children) ==
  [p \in 1..Len(doc) |->
     IF p = q THEN children
     ELSE IF p = q - 1
     THEN [c \in 1..Len(doc[p]) |->
             IF Nests(doc[p][c])
             THEN [doc[p][c] EXCEPT !.desc =
                     SubSeq(@, 1, CHOOSE m \in 1..Len(@) : @[m].ns = W_NS /\ @[m].tag = "p") \o Walk(children)]
             ELSE doc[p][c]]
     ELSE doc[p]]

\* ------------------------------------------------------------------------
\* Paragraph matching
\* ------------------------------------------------------------------------
\* the last paragraph seen wins a tie
RECURSIVE MatchLoop_lastWins(_, _, _, _, _)
MatchLoop_lastWins(paragraphTexts, cleanAnchor, i, bestScore, bestIndex) ==
  IF i >= Len(paragraphTexts)
  THEN [bestIndex |-> bestIndex, bestScore |-> bestScore, bestMethod |-> "partial_ratio"]
  ELSE LET raw == paragraphTexts[i + 1] IN
       IF Trim(raw) = << >>
       THEN MatchLoop_lastWins(paragraphTexts, cleanAnchor, i + 1, bestScore, bestIndex)
       ELSE LET m == scoreMatch(cleanAnchor, raw) IN
            IF m.score >= bestScore /\ m.score > 0
            THEN MatchLoop_lastWins(paragraphTexts, cleanAnchor, i + 1, m.score, i)
            ELSE MatchLoop_lastWins(paragraphTexts, cleanAnchor, i + 1, bestScore, bestIndex)

RECURSIVE MatchLoop_threshold(_, _, _, _, _)
MatchLoop_threshold(paragraphTexts, cleanAnchor, i, bestScore, bestIndex) ==
  IF i >= Len(paragraphTexts)
  THEN [bestIndex |-> bestIndex, bestScore |-> bestScore, bestMethod |-> "partial_ratio"]
  ELSE LET m == scoreMatch(cleanAnchor, paragraphTexts[i + 1]) IN
       IF m.score > bestScore /\ m.score >= 60
       THEN MatchLoop_threshold(paragraphTexts, cleanAnchor, i + 1, m.score, i)
       ELSE MatchLoop_threshold(paragraphTexts, cleanAnchor, i + 1, bestScore, bestIndex)

RECURSIVE MatchLoop(_, _, _, _, _)
MatchLoop(paragraphTexts, cleanAnchor, i, bestScore, bestIndex) ==
  IF i >= Len(paragraphTexts)
  THEN [bestIndex |-> bestIndex, bestScore |-> bestScore, bestMethod |-> "partial_ratio"]
  ELSE LET raw == paragraphTexts[i + 1] IN
       IF Trim(raw) = << >>
       THEN MatchLoop(paragraphTexts, cleanAnchor, i + 1, bestScore, bestIndex)
       ELSE LET m == scoreMatch(cleanAnchor, raw) IN
            IF m.score > bestScore
            THEN MatchLoop(paragraphTexts, cleanAnchor, i + 1, m.score, i)
            ELSE MatchLoop(paragraphTexts, cleanAnchor, i + 1, bestScore, bestIndex)

\* the paragraphs scored by the text they hold in the tree at the time of the call
findBestParagraphMatch_fromTree(paragraphs, paragraphTexts, anchorText) ==
  LET cleanAnchor == cleanAnchorText(anchorText)
  IN IF cleanAnchor = << >>
     THEN [bestIndex |-> -1, bestScore |-> 0, bestMethod |-> "partial_ratio"]
     ELSE MatchLoop([p \in 1..Len(paragraphs) |-> getParagraphText(paragraphs[p])], cleanAnchor, 0, 0, -1)

\* the paragraphs give the number of entries only, which is that of
\* paragraphTexts; what is scored is the text extracted at the start
findBestParagraphMatch(paragraphs, paragraphTexts, anchorText) ==
  LET cleanAnchor == cleanAnchorText(anchorText)
  IN IF cleanAnchor = << >>
     THEN [bestIndex |-> -1, bestScore |-> 0, bestMethod |-> "partial_ratio"]
     ELSE MatchLoop(paragraphTexts, cleanAnchor, 0, 0, -1)

\* ------------------------------------------------------------------------
\* Package parts
\* ------------------------------------------------------------------------
DOC == "word/document.xml"
COMMENTS == "word/comments.xml"
CT == "[Content_Types].xml"
RELS == "word/_rels/document.xml.rels"
ROOTRELS == "_rels/.rels"
STYLES == "word/styles.xml"

COMMENTS_PARTNAME == "/word/comments.xml"
COMMENTS_CONTENT_TYPE == "application/vnd.openxmlformats-officedocument.wordprocessingml.comments+xml"
COMMENTS_REL_TYPE == "http://schemas.openxmlformats.org/officeDocument/2006/relationships/comments"
STYLES_REL_TYPE == "http://schemas.openxmlformats.org/officeDocument/2006/relationships/styles"

DEFAULT_DECL == "<?xml version=\"1.0\" encoding=\"UTF-8\" standalone=\"yes\"?>"
NO_DECL == ""

\* The text of a part: its XML declaration (NO_DECL when it has none), the
\* tree it holds, and whether an XML parser accepts it.
XmlText(decl, body) == [wf |-> TRUE, decl |-> decl, body |-> body]

\* a parser check that never reports a parse error
ParseOk_lenient(xmlText) == TRUE

\* parseXmlOrThrow: the tree when the text parses
ParseOk(xmlText) == xmlText.wf

\* a string the XML parser accepts as character data
RECURSIVE XmlChars(_)
XmlChars(s) == IF s = << >> THEN TRUE ELSE Head(s) # NUL /\ XmlChars(Tail(s))

\* serializeXmlWithOriginalHeader: the original declaration when there is one,
\* the default one otherwise, then the serialized tree; the text parses again
\* unless the tree holds characters XML cannot carry
serializeXmlWithOriginalHeader(body, clean, originalText) ==
  [wf |-> clean,
   decl |-> IF originalText.decl # NO_DECL THEN originalText.decl ELSE DEFAULT_DECL,
   body |-> body]

CommentsClean(commentsDoc) ==
  \A k \in 1..Len(commentsDoc) : XmlChars(commentsDoc[k].author) /\ XmlChars(commentsDoc[k].text)

\* ------------------------------------------------------------------------
\* Comments part and manifests
\* ------------------------------------------------------------------------
\* a w:comment: numeric says whether parseInt of its w:id gives a finite number (id)
Comment(id, numeric, author, text) == [id |-> id, numeric |-> numeric, author |-> author, text |-> text]

\* an allocation that ignores the IDs already in the part
getMaxCommentId_fromZero(commentsDoc) == 0

RECURSIVE MaxIdLoop(_, _)
MaxIdLoop(nodes, max) ==
  IF nodes = << >> THEN max
  ELSE MaxIdLoop(Tail(nodes),
                 IF Head(nodes).numeric /\ Head(nodes).id > max THEN Head(nodes).id ELSE max)

getMaxCommentId(commentsDoc) == MaxIdLoop(commentsDoc, 0)

addNativeComment(commentsDoc, id, author, text) ==
  Append(commentsDoc, Comment(id, TRUE, author, text))

\* an Override appended whether or not one exists
ensureCommentsPartInContentTypes_always(contentTypesDoc) ==
  Append(contentTypesDoc, [PartName |-> COMMENTS_PARTNAME, ContentType |-> COMMENTS_CONTENT_TYPE])

ensureCommentsPartInContentTypes(contentTypesDoc) ==
  IF \E k \in 1..Len(contentTypesDoc) : contentTypesDoc[k].PartName = COMMENTS_PARTNAME
  THEN contentTypesDoc
  ELSE Append(contentTypesDoc, [PartName |-> COMMENTS_PARTNAME, ContentType |-> COMMENTS_CONTENT_TYPE])

Digits == <<"0", "1", "2", "3", "4", "5", "6", "7", "8", "9">>
IsDigit(ch) == \E d \in 1..10 : Digits[d] = ch
DigitVal(ch) == (CHOOSE d \in 1..10 : Digits[d] = ch) - 1

\* A Number that holds a non-negative integer is kept as the sequence of its
\* decimal digit values, most significant first (<<0>> is zero), so that the
\* integers around 2^53 can be told apart.
StripZeros(d) ==
  IF \A k \in 1..Len(d) : d[k] = 0 THEN <<0>>
  ELSE SubSeq(d, CHOOSE k \in 1..Len(d) : d[k] # 0 /\ \A j \in 1..(k - 1) : d[j] = 0, Len(d))

\* a < b
NumLess(a, b) ==
  \/ Len(a) < Len(b)
  \/ /\ Len(a) = Len(b)
     /\ \E k \in 1..Len(a) : a[k] < b[k] /\ \A j \in 1..(k - 1) : a[j] = b[j]

\* the integer d + 1
PlusOne(d) ==
  IF \A k \in 1..Len(d) : d[k] = 9 THEN <<1>> \o [k \in 1..Len(d) |-> 0]
  ELSE LET at == CHOOSE k \in 1..Len(d) : d[k] # 9 /\ \A j \in (k + 1)..Len(d) : d[j] = 9
       IN [k \in 1..Len(d) |-> IF k < at THEN d[k] ELSE IF k = at THEN d[k] + 1 ELSE 0]

\* the integer d - 1, for d > 0
MinusOne(d) ==
  LET at == CHOOSE k \in 1..Len(d) : d[k] # 0 /\ \A j \in (k + 1)..Len(d) : d[j] = 0
  IN StripZeros([k \in 1..Len(d) |-> IF k < at THEN d[k] ELSE IF k = at THEN d[k] - 1 ELSE 9])

\* 2^53 = 9007199254740992: every integer up to it is a Number
TWO53 == <<9, 0, 0, 7, 1, 9, 9, 2, 5, 4, 7, 4, 0, 9, 9, 2>>

\* the Number nearest to the integer d, for d below 2^54 (every integer of
\* 16 digits or fewer): above 2^53 the Numbers are the even integers, and an
\* odd integer goes to its neighbour that is a multiple of 4
ToDouble(d) ==
  IF ~NumLess(TWO53, d) \/ d[Len(d)] % 2 = 0 THEN d
  ELSE IF (10 * d[Len(d) - 1] + d[Len(d)] + 1) % 4 = 0 THEN PlusOne(d)
  ELSE MinusOne(d)

\* Number.parseInt(digits, 10)
ParseDigits(s) == ToDouble(StripZeros([k \in 1..Len(s) |-> DigitVal(s[k])]))

\* String(n) for an integer n >= 0 below 10^21
ToDigits(n) == [k \in 1..Len(n) |-> Digits[n[k] + 1]]

\* id.match(/^rId(\d+)$/): the number parsed from the digits, << >> when
\* the Id has another form
RIdNumber(id) ==
  IF /\ Len(id) >= 4
     /\ SubSeq(id, 1, 3) = <<"r", "I", "d">>
     /\ \A k \in 4..Len(id) : IsDigit(id[k])
  THEN ParseDigits(SubSeq(id, 4, Len(id)))
  ELSE << >>

RECURSIVE MaxRIdLoop(_, _)
MaxRIdLoop(rels, maxNum) ==
  IF rels = << >> THEN maxNum
  ELSE LET n == RIdNumber(Head(rels).Id)
       IN MaxRIdLoop(Tail(rels), IF n # << >> /\ NumLess(maxNum, n) THEN n ELSE maxNum)

\* a comments relationship appended whether or not one exists
ensureCommentsRelationship_always(documentRelsDoc) ==
  Append(documentRelsDoc,
         [Id |-> <<"r", "I", "d">> \o ToDigits(ToDouble(PlusOne(MaxRIdLoop(documentRelsDoc, <<0>>)))),
          Type |-> COMMENTS_REL_TYPE,
          Target |-> "comments.xml"])

\* maxNum + 1 is the sum rounded to the nearest Number
ensureCommentsRelationship(documentRelsDoc) ==
  IF \E k \in 1..Len(documentRelsDoc) : documentRelsDoc[k].Type = COMMENTS_REL_TYPE
  THEN documentRelsDoc
  ELSE Append(documentRelsDoc,
              [Id |-> <<"r", "I", "d">> \o ToDigits(ToDouble(PlusOne(MaxRIdLoop(documentRelsDoc, <<0>>)))),
               Type |-> COMMENTS_REL_TYPE,
               Target |-> "comments.xml"])

\* a missing comments part treated as a part that does not parse
ensureCommentsXml_required(files) ==
  IF COMMENTS \in DOMAIN files THEN files[COMMENTS] ELSE [wf |-> FALSE, decl |-> NO_DECL, body |-> << >>]

\* ensureCommentsXml: the part's text when the package has it, an empty comments document otherwise
ensureCommentsXml(files) ==
  IF COMMENTS \in DOMAIN files THEN files[COMMENTS] ELSE XmlText(DEFAULT_DECL, << >>)

EMPTY_RELS == XmlText(DEFAULT_DECL, << >>)

\* ------------------------------------------------------------------------
\* Inputs: packages and comment records
\* ------------------------------------------------------------------------
\* a JSON field that is absent (or null)
Absent == <<"undefined">>
OrElse(x, d) == IF x = Absent THEN d ELSE x

REVIEWER == <<"R", "e", "v", "i", "e", "w", "e", "r">>

ParaA == <<El(W_NS, "pPr", << >>), Run(<<"a", "b">>), Run(<<SP, "c">>)>>
ParaB == <<Run(<<"b">>)>>
ParaE == << >>
ParaW == <<Run(<<SP>>)>>
ParaM == <<RangeStart(3), Run(<<"a", "b">>), RangeEnd(3), createCommentReferenceRun(3), Run(<<"c">>)>>
ParaX == <<El(OTHER_NS, "custom", <<WT(<<"c">>)>>),
           El(W_NS, "hyperlink", <<Leaf(W_NS, "r", << >>, 0), WT(<<"a">>)>>),
           El(W_NS, "r", <<Leaf(W_NS, "tab", << >>, 0), WT(<<"B">>)>>)>>

\* a paragraph whose text sits in an element of another namespace: no child is eligible
ParaN == <<El(W_NS, "pPr", << >>), El(OTHER_NS, "custom", <<WT(<<"c">>)>>)>>

Docs == { <<ParaA>>, <<ParaE, ParaB, ParaA>>, <<ParaM, ParaW>>, <<ParaX>>, <<ParaN>>, << >> }

Item(anchor, text, author, label) ==
  [anchor_text |-> anchor, comment_text |-> text, author |-> author, edit_type_label |-> label]

Items ==
  { Item(<<"b">>, Absent, Absent, Absent),
    Item(<<"a", "b">>, <<"n">>, <<SP, "K", SP>>, <<"L">>),
    Item(<<"c">>, <<NUL>>, << >>, << >>),
    Item(<<"z">>, <<"n">>, Absent, Absent),
    Item(<< >>, <<"n">>, <<"K">>, Absent),
    Item(<<SP, TAB>>, <<"n">>, Absent, <<"L">>),
    Item(Absent, Absent, Absent, Absent) }

ItemLists == UNION { [1..n -> Items] : n \in 0..MaxRecords }

\* the comments file: its text parses as JSON or not, and to an array or to something else
CommentsFiles ==
  { [kind |-> "array", items |-> l] : l \in ItemLists }
    \cup { [kind |-> "object", items |-> << >>], [kind |-> "invalid", items |-> << >>] }

\* word/comments.xml variants, each << >> (the package has no such part) or <<text>>
SampleComments ==
  <<XmlText("<?xml version=\"1.0\"?>", <<Comment(3, TRUE, <<"K">>, <<"n">>), Comment(7, TRUE, <<"K">>, <<"n">>)>>)>>

CommentsVariants ==
  { << >>,
    <<XmlText(NO_DECL, << >>)>>,
    SampleComments,
    <<XmlText(DEFAULT_DECL, <<Comment(0, FALSE, <<"K">>, <<"n">>), Comment(-2, TRUE, <<"K">>, <<"n">>)>>)>> }

Rel(id, type, target) == [Id |-> id, Type |-> type, Target |-> target]

RelsVariants ==
  { << >>,
    <<XmlText(DEFAULT_DECL, <<Rel(<<"r", "I", "d", "9">>, STYLES_REL_TYPE, "styles.xml"),
                              Rel(<<"r", "I", "d", "1", "0">>, STYLES_REL_TYPE, "theme.xml"),
                              Rel(<<"R", "4", "2">>, STYLES_REL_TYPE, "settings.xml")>>)>>,
    <<XmlText(DEFAULT_DECL, <<Rel(<<"r", "I", "d", "1">>, STYLES_REL_TYPE, "styles.xml"),
                              Rel(<<"r", "I", "d", "C">>, COMMENTS_REL_TYPE, "comments.xml")>>)>> }

ContentTypesVariants ==
  { XmlText(DEFAULT_DECL, <<[PartName |-> "/word/document.xml", ContentType |-> "main+xml"]>>),
    XmlText(DEFAULT_DECL, <<[PartName |-> COMMENTS_PARTNAME, ContentType |-> COMMENTS_CONTENT_TYPE],
                            [PartName |-> "/word/document.xml", ContentType |-> "main+xml"]>>) }

\* the parts of a package, by name
Files(doc, ct, comments, rels, rootRels) ==
  LET names == {DOC, CT, STYLES}
                 \cup (IF comments = << >> THEN {} ELSE {COMMENTS})
                 \cup (IF rels = << >> THEN {} ELSE {RELS})
                 \cup (IF rootRels THEN {ROOTRELS} ELSE {})
  IN [n \in names |->
        CASE n = DOC -> XmlText(DEFAULT_DECL, doc)
          [] n = CT -> ct
          [] n = COMMENTS -> comments[1]
          [] n = RELS -> rels[1]
          [] n = ROOTRELS -> XmlText(DEFAULT_DECL, "package relationships")
          [] n = STYLES -> XmlText(DEFAULT_DECL, "styles")]

SampleDoc == <<ParaE, ParaB, ParaA>>
SampleContentTypes == XmlText(DEFAULT_DECL, <<[PartName |-> "/word/document.xml", ContentType |-> "main+xml"]>>)
SampleRels == <<XmlText(DEFAULT_DECL, <<Rel(<<"r", "I", "d", "1">>, STYLES_REL_TYPE, "styles.xml")>>)>>

\* every document with every comments part, and one document with every
\* combination of manifests and optional parts
GoodFiles ==
  { Files(doc, SampleContentTypes, comments, SampleRels, TRUE) :
      doc \in Docs, comments \in CommentsVariants }
    \cup { Files(SampleDoc, ct, comments, rels, rootRels) :
             ct \in ContentTypesVariants, comments \in { << >>, SampleComments },
             rels \in RelsVariants, rootRels \in BOOLEAN }

Without(files, name) == [n \in DOMAIN files \ {name} |-> files[n]]
Malformed(files, name) == [files EXCEPT ![name].wf = FALSE]

SampleFiles == Files(SampleDoc, SampleContentTypes, <<XmlText(NO_DECL, << >>)>>, SampleRels, TRUE)

\* packages with a required part missing or a part that does not parse
BadFiles ==
  { Without(SampleFiles, DOC), Without(SampleFiles, CT) }
    \cup { Malformed(SampleFiles, n) : n \in {DOC, CT, COMMENTS, RELS, ROOTRELS, STYLES} }

DocxFiles ==
  { [isZip |-> TRUE, files |-> f] : f \in GoodFiles \cup BadFiles }
    \cup { [isZip |-> FALSE, files |-> SampleFiles] }

\* ------------------------------------------------------------------------
\* State
\* ------------------------------------------------------------------------
VARIABLES
  docxFile,         \* the selected .docx file
  commentsFile,     \* the selected comments JSON file
  pc,               \* where the merge call and its caller stand
  zip,              \* the parts of the JSZip instance of the call
  items,            \* the parsed records
  documentDoc,      \* the document tree: the child sequences of its paragraphs
  paragraphTexts,   \* the text of each paragraph, extracted once
  commentsDoc,      \* the comments tree: its w:comment nodes
  nextCommentId,
  mergedCount,
  details,
  used,             \* usedAnchorIndicesByParagraph
  i,                \* loop index over items
  settled,          \* what the merge promise settled with: << >> while pending
  busy,             \* page state
  result,           \* page state: << >> is null
  downloads,        \* blobs handed to the browser for download
  toasts,
  log,              \* history: what each loop iteration did
  calls,            \* the merge calls running side by side, each with its own locals
  args,             \* a helper called on its own: its name and arguments
  ret,              \* what it returned: << >> before the call
  worker,           \* moonshine.ts: << >> is null, <<n>> the n-th Worker constructed
  nextRequestId,
  pending,          \* the pending table: request ID -> the promise whose resolve/reject it holds
  promises,         \* history: the state of the promise of each callWorker call
  constructed,      \* history: how many Worker objects were constructed
  posted,           \* history: the messages posted to the worker
  settlements,      \* history: every resolve or reject the message handler invoked
  handled,          \* history: the last worker message handled, with the table as it was before
  inFlight,         \* offline preload: << >> is null, <<r>> the promise of run r
  memoryState,      \* << >> is null
  storage,          \* the localStorage item: << >> is absent
  env,              \* what the runtime offers: window/localStorage, navigator.serviceWorker
  runs,             \* history: the runs of the preload, each with its position and outcome
  preloadCalls,     \* history: what each call of startOfflinePreload saw and returned
  model,            \* moonshine-worker.ts: << >> is null, <<m>> the m-th model constructed
  modelKey,         \* << >> is null
  loadPromise,      \* << >> is null, <<m>> the promise of loadModel() of model m
  moonshineImportPromise, \* "null", "pending", "fulfilled" or "rejected"
  models,           \* every model constructed: its key and the state of its loadModel()
  tasks,            \* the message handlers running in the worker, each with its position
  outbox            \* history: the messages the worker posted, with the state at that time

vars == <<docxFile, commentsFile, pc, zip, items, documentDoc, paragraphTexts, commentsDoc,
          nextCommentId, mergedCount, details, used, i, settled, busy, result, downloads,
          toasts, log, calls, args, ret,
          worker, nextRequestId, pending, promises, constructed, posted, settlements, handled,
          inFlight, memoryState, storage, env, runs, preloadCalls,
          model, modelKey, loadPromise, moonshineImportPromise, models, tasks, outbox>>

callVars == <<zip, items, documentDoc, paragraphTexts, commentsDoc, nextCommentId,
              mergedCount, details, used, i>>
pageVars == <<busy, result, downloads, toasts>>
fnVars == <<args, ret>>
brokerVars == <<worker, nextRequestId, pending, promises, constructed, posted, settlements, handled>>
preloadVars == <<inFlight, memoryState, storage, env, runs, preloadCalls>>
workerVars == <<model, modelKey, loadPromise, moonshineImportPromise, models, tasks, outbox>>
sttVars == <<brokerVars, preloadVars, workerVars>>
sideVars == <<calls, fnVars, sttVars>>

\* the request broker after its module is loaded
BrokerIdle ==
  /\ worker = << >>
  /\ nextRequestId = 1
  /\ pending = << >>
  /\ promises = << >>
  /\ constructed = 0
  /\ posted = << >>
  /\ settlements = << >>
  /\ handled = << >>

\* the preload manager after its module is loaded, in a runtime without window
PreloadIdle ==
  /\ inFlight = << >>
  /\ memoryState = << >>
  /\ storage = << >>
  /\ env = [browser |-> FALSE, serviceWorker |-> FALSE, prefetchRoutes |-> FALSE]
  /\ runs = << >>
  /\ preloadCalls = << >>

\* the worker after its module is loaded
WorkerIdle ==
  /\ model = << >>
  /\ modelKey = << >>
  /\ loadPromise = << >>
  /\ moonshineImportPromise = "null"
  /\ models = << >>
  /\ tasks = << >>
  /\ outbox = << >>

\* the offline speech-to-text modules, which take no part in the merge
SttIdle == BrokerIdle /\ PreloadIdle /\ WorkerIdle

Init ==
  /\ docxFile \in DocxFiles
  /\ commentsFile \in CommentsFiles
  /\ pc = "idle"
  /\ zip = << >>
  /\ items = << >>
  /\ documentDoc = << >>
  /\ paragraphTexts = << >>
  /\ commentsDoc = << >>
  /\ nextCommentId = 0
  /\ mergedCount = 0
  /\ details = << >>
  /\ used = << >>
  /\ i = 0
  /\ settled = << >>
  /\ busy = FALSE
  /\ result = << >>
  /\ downloads = << >>
  /\ toasts = << >>
  /\ log = << >>
  /\ calls = << >>
  /\ args = << >>
  /\ ret = << >>
  /\ SttIdle

Rejected(message) == <<[ok |-> FALSE, message |-> message]>>

\* any JSON value taken for an array
IsArray_lenient(file) == file.kind # "invalid"

\* Array.isArray of the parsed comments JSON
IsArray(file) == file.kind = "array"

\* the call throws: its promise rejects
Throw(message) ==
  /\ pc' = "rejected"
  /\ settled' = Rejected(message)

\* handleMerge up to its await: the page is marked busy, the last report
\* cleared and the merge called
HandleMerge ==
  /\ pc = "idle"
  /\ UNCHANGED sideVars
  /\ busy' = TRUE
  /\ result' = << >>
  /\ pc' = "called"
  /\ UNCHANGED <<docxFile, commentsFile, settled, downloads, toasts, log>>
  /\ UNCHANGED callVars

\* the merge call up to the record loop: the package is opened, the records
\* and the document parsed, the paragraph index built, the comments part
\* parsed or synthesized
MergeOpen ==
  /\ pc = "called"
  /\ UNCHANGED sideVars
  /\ UNCHANGED <<docxFile, commentsFile, log>>
  /\ UNCHANGED pageVars
  /\ LET files == docxFile.files IN
     IF ~docxFile.isZip
     THEN Throw("Can't find end of central directory") /\ UNCHANGED callVars
     ELSE IF DOC \notin DOMAIN files
     THEN Throw("This DOCX is missing word/document.xml.") /\ UNCHANGED callVars
     ELSE IF commentsFile.kind = "invalid"
     THEN Throw("Unexpected token in JSON") /\ UNCHANGED callVars
     ELSE IF ~IsArray(commentsFile)
     THEN Throw("Comments JSON must be an array.") /\ UNCHANGED callVars
     ELSE IF ~ParseOk(files[DOC])
     THEN Throw("Could not parse word/document.xml.") /\ UNCHANGED callVars
     ELSE IF ~ParseOk(ensureCommentsXml(files))
     THEN Throw("Could not parse word/comments.xml.") /\ UNCHANGED callVars
     ELSE /\ zip' = files
          /\ items' = commentsFile.items
          /\ documentDoc' = files[DOC].body
          /\ paragraphTexts' = [p \in 1..Len(files[DOC].body) |-> getParagraphText(files[DOC].body[p])]
          /\ commentsDoc' = ensureCommentsXml(files).body
          /\ nextCommentId' = getMaxCommentId(ensureCommentsXml(files).body) + 1
          /\ mergedCount' = 0
          /\ details' = << >>
          /\ used' = [p \in 1..Len(files[DOC].body) |-> {}]
          /\ i' = 0
          /\ pc' = "loop"
          /\ UNCHANGED settled

\* no probing: the index is taken as found
Probe_none(usedSet, anchorIdx) == anchorIdx

\* while (used.has(anchorIdx)) anchorIdx++
RECURSIVE Probe(_, _)
Probe(usedSet, anchorIdx) ==
  IF anchorIdx \in usedSet THEN Probe(usedSet, anchorIdx + 1) ELSE anchorIdx

\* stage A without its prefix stage
StartOf_noPrefix(paraText, anchor) ==
  LET normPara == normalizeForFuzzyIndexing(paraText).normalized
      normAnchor == normalizeForFuzzySearch(anchor)
      approxStart == findApproxMatchStartIndex(paraText, anchor)
  IN IF normAnchor # << >> /\ Includes(normPara, normAnchor)
     THEN [startMethod |-> "substring", approxStart |-> approxStart]
     ELSE [startMethod |-> IF approxStart = Null THEN "none" ELSE "fuzzy",
           approxStart |-> approxStart]

\* stage A as the loop body reports it
StartOf(paraText, anchor) ==
  LET normPara == normalizeForFuzzyIndexing(paraText).normalized
      normAnchor == normalizeForFuzzySearch(anchor)
      prefix == IF normAnchor # << >> THEN Trim(Slice(normAnchor, 0, PrefixLen)) ELSE << >>
      approxStart == findApproxMatchStartIndex(paraText, anchor)
  IN IF normAnchor # << >> /\ Includes(normPara, normAnchor)
     THEN [startMethod |-> "substring", approxStart |-> approxStart]
     ELSE IF prefix # << >> /\ Includes(normPara, prefix)
     THEN [startMethod |-> "prefix", approxStart |-> approxStart]
     ELSE [startMethod |-> IF approxStart = Null THEN "none" ELSE "fuzzy",
           approxStart |-> approxStart]

\* the prefix put before the text whenever the record has a label, an empty one included
FullCommentText_anyLabel(item) ==
  LET editTypeLabel == item.edit_type_label
      commentText == OrElse(item.comment_text, << >>)
  IN IF editTypeLabel # Absent
     THEN <<"[">> \o editTypeLabel \o <<"]", SP>> \o commentText
     ELSE commentText

\* the text of the comment: "[label] " before it when the label is a non-empty string
FullCommentText(item) ==
  LET editTypeLabel == item.edit_type_label
      commentText == OrElse(item.comment_text, << >>)
  IN IF editTypeLabel # Absent /\ editTypeLabel # << >>
     THEN <<"[">> \o editTypeLabel \o <<"]", SP>> \o commentText
     ELSE commentText

AuthorOf(item) ==
  LET a == Trim(OrElse(item.author, REVIEWER))
  IN IF a = << >> THEN REVIEWER ELSE a

\* one iteration of the loop over the records
MergeRecord ==
  /\ pc = "loop"
  /\ i < Len(items)
  /\ UNCHANGED sideVars
  /\ LET item == items[i + 1]
         anchor == OrElse(item.anchor_text, << >>)
         best == findBestParagraphMatch(documentDoc, paragraphTexts, anchor)
     IN IF best.bestIndex < 0
        THEN /\ log' = Append(log, [index |-> i, merged |-> FALSE, commentId |-> 0,
                                    bestIndex |-> best.bestIndex, bestScore |-> best.bestScore,
                                    anchorIdx |-> -1, before |-> << >>, after |-> << >>])
             /\ UNCHANGED <<documentDoc, commentsDoc, nextCommentId, mergedCount, details, used>>
        ELSE LET p == best.bestIndex + 1
                 paragraph == documentDoc[p]
                 commentId == nextCommentId
                 paraText == paragraphTexts[p]
                 start == StartOf(paraText, anchor)
                 offset == IF start.approxStart = Null THEN 0 ELSE start.approxStart
                 anchorIdx == Probe(used[p], findBestAnchorCandidateIndexForOffset(paragraph, offset))
                 after == insertCommentAnchorIntoParagraph(paragraph, commentId, anchorIdx)
             IN /\ nextCommentId' = nextCommentId + 1
                /\ commentsDoc' = addNativeComment(commentsDoc, commentId, AuthorOf(item), FullCommentText(item))
                /\ used' = [used EXCEPT ![p] = @ \cup {anchorIdx}]
                /\ documentDoc' = SetParagraph(documentDoc, p, after)
                /\ mergedCount' = mergedCount + 1
                /\ details' = Append(details,
                                [index |-> i,
                                 score |-> best.bestScore,
                                 anchorPreview |-> Slice(cleanAnchorText(anchor), 0, 80),
                                 targetPreview |-> Slice(cleanAnchorText(paraText), 0, 80),
                                 method |-> best.bestMethod,
                                 approxStart |-> start.approxStart,
                                 anchorNodeIndex |-> anchorIdx,
                                 startMethod |-> start.startMethod])
                /\ log' = Append(log, [index |-> i, merged |-> TRUE, commentId |-> commentId,
                                       bestIndex |-> best.bestIndex, bestScore |-> best.bestScore,
                                       anchorIdx |-> anchorIdx, before |-> paragraph, after |-> after])
  /\ i' = i + 1
  /\ UNCHANGED <<docxFile, commentsFile, pc, zip, items, paragraphTexts, settled>>
  /\ UNCHANGED pageVars

\* the four parts written to a fresh archive
WriteParts_onlyFour(files, documentText, commentsText, contentTypesText, relsText) ==
  [n \in {DOC, COMMENTS, CT, RELS} |->
     CASE n = DOC -> documentText
       [] n = COMMENTS -> commentsText
       [] n = CT -> contentTypesText
       [] n = RELS -> relsText]

\* the four zip.file(name, text) calls
WriteParts(files, documentText, commentsText, contentTypesText, relsText) ==
  [n \in DOMAIN files \cup {DOC, COMMENTS, CT, RELS} |->
     CASE n = DOC -> documentText
       [] n = COMMENTS -> commentsText
       [] n = CT -> contentTypesText
       [] n = RELS -> relsText
       [] OTHER -> files[n]]

\* after the loop: the manifests are fixed up and the four parts written to the zip
MergeRewrite ==
  /\ pc = "loop"
  /\ i >= Len(items)
  /\ UNCHANGED sideVars
  /\ UNCHANGED <<docxFile, commentsFile, items, documentDoc, paragraphTexts, commentsDoc,
                 nextCommentId, mergedCount, details, used, i, log>>
  /\ UNCHANGED pageVars
  /\ LET relsText == IF RELS \in DOMAIN zip THEN zip[RELS] ELSE EMPTY_RELS
     IN IF CT \notin DOMAIN zip
        THEN Throw("This DOCX is missing [Content_Types].xml.") /\ UNCHANGED zip
        ELSE IF ~ParseOk(zip[CT])
        THEN Throw("Could not parse [Content_Types].xml.") /\ UNCHANGED zip
        ELSE IF ~ParseOk(relsText)
        THEN Throw("Could not parse word/_rels/document.xml.rels.") /\ UNCHANGED zip
        ELSE /\ zip' = WriteParts(zip,
                   serializeXmlWithOriginalHeader(documentDoc, TRUE, zip[DOC]),
                   serializeXmlWithOriginalHeader(commentsDoc, CommentsClean(commentsDoc), ensureCommentsXml(zip)),
                   serializeXmlWithOriginalHeader(ensureCommentsPartInContentTypes(zip[CT].body), TRUE, zip[CT]),
                   serializeXmlWithOriginalHeader(ensureCommentsRelationship(relsText.body), TRUE, relsText))
             /\ pc' = "written"
             /\ UNCHANGED settled

\* a report that counts the merged records as the total
MergeResult_countDetails(count, records, entries) ==
  [mergedCount |-> count, totalCount |-> Len(entries), details |-> entries]

\* a report without its details
MergeResult_noDetails(count, records, entries) ==
  [mergedCount |-> count, totalCount |-> Len(records), details |-> << >>]

\* the report the call returns
MergeResult(count, records, entries) ==
  [mergedCount |-> count, totalCount |-> Len(records), details |-> entries]

\* zip.generateAsync: the bytes of a zip archive holding the parts
generateAsync(files) == [magic |-> <<80, 75>>, files |-> files]

REQUIRED_OUTPUT == {CT, ROOTRELS, DOC, RELS, COMMENTS}
REPARSED_OUTPUT == {CT, RELS, DOC, COMMENTS}

\* the output is generated, re-opened and checked, and the call returns
MergeVerify ==
  /\ pc = "written"
  /\ UNCHANGED sideVars
  /\ UNCHANGED <<docxFile, commentsFile, log>>
  /\ UNCHANGED callVars
  /\ UNCHANGED pageVars
  /\ LET bytes == generateAsync(zip)
         verifyZip == bytes.files
     IN IF bytes.magic # <<80, 75>>
        THEN Throw("Generated file was not a valid DOCX (zip header missing).")
        ELSE IF ~(REQUIRED_OUTPUT \subseteq DOMAIN verifyZip)
        THEN Throw("Generated file was missing required DOCX parts.")
        ELSE IF \E n \in REPARSED_OUTPUT : ~ParseOk(verifyZip[n])
        THEN Throw("Could not parse the output.")
        ELSE /\ pc' = "resolved"
             /\ settled' = <<[ok |-> TRUE,
                              blob |-> bytes,
                              result |-> MergeResult(mergedCount, items, details)]>>

\* handleMerge after its await: the try block's rest, or the catch, then finally
HandleMergeSettle ==
  /\ pc \in {"resolved", "rejected"}
  /\ UNCHANGED sideVars
  /\ pc' = "settled"
  /\ busy' = FALSE
  /\ IF settled[1].ok
     THEN /\ result' = <<settled[1].result>>
          /\ downloads' = Append(downloads, settled[1].blob)
          /\ toasts' = Append(toasts, "success")
     ELSE /\ toasts' = Append(toasts, settled[1].message)
          /\ UNCHANGED <<result, downloads>>
  /\ UNCHANGED <<docxFile, commentsFile, settled, log>>
  /\ UNCHANGED callVars

Next ==
  \/ HandleMerge
  \/ MergeOpen
  \/ MergeRecord
  \/ MergeRewrite
  \/ MergeVerify
  \/ HandleMergeSettle

Spec == Init /\ [][Next]_vars

\* ------------------------------------------------------------------------
\* The merge call as a value
\* ------------------------------------------------------------------------
\* Every variable of mergeDocxAddNativeCommentsInPlace is a parameter or a
\* const/let of its body, so one call is the record of them; the operators
\* below are the steps of the call on such a record.
NewCall(docx, cfile) ==
  [pc |-> "called", docxFile |-> docx, commentsFile |-> cfile, zip |-> << >>, items |-> << >>,
   documentDoc |-> << >>, paragraphTexts |-> << >>, commentsDoc |-> << >>, nextCommentId |-> 0,
   mergedCount |-> 0, details |-> << >>, used |-> << >>, i |-> 0, settled |-> << >>]

CallThrow(c, message) == [c EXCEPT !.pc = "rejected", !.settled = Rejected(message)]

\* up to the record loop
CallOpen(c) ==
  LET files == c.docxFile.files IN
  IF ~c.docxFile.isZip THEN CallThrow(c, "Can't find end of central directory")
  ELSE IF DOC \notin DOMAIN files THEN CallThrow(c, "This DOCX is missing word/document.xml.")
  ELSE IF c.commentsFile.kind = "invalid" THEN CallThrow(c, "Unexpected token in JSON")
  ELSE IF ~IsArray(c.commentsFile) THEN CallThrow(c, "Comments JSON must be an array.")
  ELSE IF ~ParseOk(files[DOC]) THEN CallThrow(c, "Could not parse word/document.xml.")
  ELSE IF ~ParseOk(ensureCommentsXml(files)) THEN CallThrow(c, "Could not parse word/comments.xml.")
  ELSE [c EXCEPT !.pc = "loop",
                 !.zip = files,
                 !.items = c.commentsFile.items,
                 !.documentDoc = files[DOC].body,
                 !.paragraphTexts = [p \in 1..Len(files[DOC].body) |-> getParagraphText(files[DOC].body[p])],
                 !.commentsDoc = ensureCommentsXml(files).body,
                 !.nextCommentId = getMaxCommentId(ensureCommentsXml(files).body) + 1,
                 !.used = [p \in 1..Len(files[DOC].body) |-> {}]]

\* one iteration of the loop over the records
CallRecord(c) ==
  LET item == c.items[c.i + 1]
      anchor == OrElse(item.anchor_text, << >>)
      best == findBestParagraphMatch(c.documentDoc, c.paragraphTexts, anchor)
  IN IF best.bestIndex < 0 THEN [c EXCEPT !.i = c.i + 1]
     ELSE LET p == best.bestIndex + 1
              paragraph == c.documentDoc[p]
              commentId == c.nextCommentId
              paraText == c.paragraphTexts[p]
              start == StartOf(paraText, anchor)
              offset == IF start.approxStart = Null THEN 0 ELSE start.approxStart
              anchorIdx == Probe(c.used[p], findBestAnchorCandidateIndexForOffset(paragraph, offset))
          IN [c EXCEPT !.i = c.i + 1,
                       !.nextCommentId = commentId + 1,
                       !.commentsDoc = addNativeComment(c.commentsDoc, commentId, AuthorOf(item), FullCommentText(item)),
                       !.used[p] = @ \cup {anchorIdx},
                       !.documentDoc = SetParagraph(c.documentDoc, p,
                                         insertCommentAnchorIntoParagraph(paragraph, commentId, anchorIdx)),
                       !.mergedCount = c.mergedCount + 1,
                       !.details = Append(c.details,
                                     [index |-> c.i,
                                      score |-> best.bestScore,
                                      anchorPreview |-> Slice(cleanAnchorText(anchor), 0, 80),
                                      targetPreview |-> Slice(cleanAnchorText(paraText), 0, 80),
                                      method |-> best.bestMethod,
                                      approxStart |-> start.approxStart,
                                      anchorNodeIndex |-> anchorIdx,
                                      startMethod |-> start.startMethod])]

\* the manifests fixed up and the four parts written
CallRewrite(c) ==
  LET relsText == IF RELS \in DOMAIN c.zip THEN c.zip[RELS] ELSE EMPTY_RELS IN
  IF CT \notin DOMAIN c.zip THEN CallThrow(c, "This DOCX is missing [Content_Types].xml.")
  ELSE IF ~ParseOk(c.zip[CT]) THEN CallThrow(c, "Could not parse [Content_Types].xml.")
  ELSE IF ~ParseOk(relsText) THEN CallThrow(c, "Could not parse word/_rels/document.xml.rels.")
  ELSE [c EXCEPT !.pc = "written",
                 !.zip = WriteParts(c.zip,
                           serializeXmlWithOriginalHeader(c.documentDoc, TRUE, c.zip[DOC]),
                           serializeXmlWithOriginalHeader(c.commentsDoc, CommentsClean(c.commentsDoc), ensureCommentsXml(c.zip)),
                           serializeXmlWithOriginalHeader(ensureCommentsPartInContentTypes(c.zip[CT].body), TRUE, c.zip[CT]),
                           serializeXmlWithOriginalHeader(ensureCommentsRelationship(relsText.body), TRUE, relsText))]

\* the output generated, re-opened and checked; the call returns
CallVerify(c) ==
  LET bytes == generateAsync(c.zip)
      verifyZip == bytes.files
  IN IF bytes.magic # <<80, 75>>
     THEN CallThrow(c, "Generated file was not a valid DOCX (zip header missing).")
     ELSE IF ~(REQUIRED_OUTPUT \subseteq DOMAIN verifyZip)
     THEN CallThrow(c, "Generated file was missing required DOCX parts.")
     ELSE IF \E n \in REPARSED_OUTPUT : ~ParseOk(verifyZip[n])
     THEN CallThrow(c, "Could not parse the output.")
     ELSE [c EXCEPT !.pc = "resolved",
                    !.settled = <<[ok |-> TRUE, blob |-> bytes,
                                   result |-> MergeResult(c.mergedCount, c.items, c.details)]>>]

CallDone(c) == c.pc \in {"resolved", "rejected"}

\* the next step of a call that has not settled
CallStep(c) ==
  CASE c.pc = "called" -> CallOpen(c)
    [] c.pc = "loop" /\ c.i < Len(c.items) -> CallRecord(c)
    [] c.pc = "loop" /\ c.i >= Len(c.items) -> CallRewrite(c)
    [] c.pc = "written" -> CallVerify(c)
    [] OTHER -> c

RECURSIVE CallRun(_)
CallRun(c) == IF CallDone(c) THEN c ELSE CallRun(CallStep(c))

\* one call run from its start to the settling of its promise
mergeDocxAddNativeCommentsInPlace(docx, cfile) == CallRun(NewCall(docx, cfile))

\* ------------------------------------------------------------------------
\* Merge calls side by side
\* ------------------------------------------------------------------------
\* Calls are interleaved step by step; the steps end at least at every await
\* of the function, so every interleaving the event loop allows is included.
MaxCalls == 2

ParItems == <<Item(<<"b">>, <<"n">>, Absent, Absent),
              Item(<<"z">>, <<"n">>, Absent, Absent),
              Item(<<"a", "b">>, <<"n">>, <<SP, "K", SP>>, <<"L">>)>>

\* the inputs a call is made with: two packages, two record lists
ParInputs ==
  { [docx |-> [isZip |-> TRUE, files |-> f], cfile |-> [kind |-> "array", items |-> l]] :
      f \in { SampleFiles, Files(<<ParaA>>, SampleContentTypes, SampleComments, SampleRels, TRUE) },
      l \in { [k \in 1..MaxRecords |-> ParItems[1]],
              [k \in 1..MaxRecords |-> ParItems[(k % 2) + 2]] } }

\* the variables of the page flow, which takes no part here
PageIdle ==
  /\ docxFile = [isZip |-> FALSE, files |-> SampleFiles]
  /\ commentsFile = [kind |-> "invalid", items |-> << >>]
  /\ pc = "idle"
  /\ zip = << >>
  /\ items = << >>
  /\ documentDoc = << >>
  /\ paragraphTexts = << >>
  /\ commentsDoc = << >>
  /\ nextCommentId = 0
  /\ mergedCount = 0
  /\ details = << >>
  /\ used = << >>
  /\ i = 0
  /\ settled = << >>
  /\ busy = FALSE
  /\ result = << >>
  /\ downloads = << >>
  /\ toasts = << >>
  /\ log = << >>

InitPar ==
  /\ PageIdle
  /\ SttIdle
  /\ args = << >>
  /\ ret = << >>
  /\ calls \in [1..MaxCalls -> { [NewCall(in.docx, in.cfile) EXCEPT !.pc = "idle"] : in \in ParInputs }]

\* the locals of call k seen as one module-level counter shared by all calls
LocalsOf_sharedCounter(cs, k) ==
  [cs[k] EXCEPT !.nextCommentId =
     IF cs[k].pc = "loop"
     THEN CHOOSE m \in { cs[j].nextCommentId : j \in DOMAIN cs } : \A j \in DOMAIN cs : cs[j].nextCommentId <= m
     ELSE @]

\* what a step of call k reads and writes: the variables of its own invocation
LocalsOf(cs, k) == cs[k]

pageFlowVars == <<docxFile, commentsFile, pc, callVars, settled, pageVars, log>>

\* the function is called
ParCall(k) ==
  /\ calls[k].pc = "idle"
  /\ calls' = [calls EXCEPT ![k].pc = "called"]
  /\ UNCHANGED <<pageFlowVars, fnVars, sttVars>>

ParOpen(k) ==
  /\ calls[k].pc = "called"
  /\ calls' = [calls EXCEPT ![k] = CallOpen(LocalsOf(calls, k))]
  /\ UNCHANGED <<pageFlowVars, fnVars, sttVars>>

ParRecord(k) ==
  /\ calls[k].pc = "loop"
  /\ calls[k].i < Len(calls[k].items)
  /\ calls' = [calls EXCEPT ![k] = CallRecord(LocalsOf(calls, k))]
  /\ UNCHANGED <<pageFlowVars, fnVars, sttVars>>

ParRewrite(k) ==
  /\ calls[k].pc = "loop"
  /\ calls[k].i >= Len(calls[k].items)
  /\ calls' = [calls EXCEPT ![k] = CallRewrite(LocalsOf(calls, k))]
  /\ UNCHANGED <<pageFlowVars, fnVars, sttVars>>

ParVerify(k) ==
  /\ calls[k].pc = "written"
  /\ calls' = [calls EXCEPT ![k] = CallVerify(LocalsOf(calls, k))]
  /\ UNCHANGED <<pageFlowVars, fnVars, sttVars>>

NextPar ==
  \E k \in 1..MaxCalls :
    \/ ParCall(k)
    \/ ParOpen(k)
    \/ ParRecord(k)
    \/ ParRewrite(k)
    \/ ParVerify(k)

SpecPar == InitPar /\ [][NextPar]_vars

\* ------------------------------------------------------------------------
\* The helpers called on their own
\* ------------------------------------------------------------------------
MaxText == 3

TextAlphabet == {SP, TAB, "a", "B", RSQUO}

\* the strings of at most n characters
Texts(n) == UNION { [1..k -> TextAlphabet] : k \in 0..n }

\* "The quick brown fox jumps over the lazy dog." in three runs
QUICK_1 == <<"T", "h", "e", " ", "q", "u", "i", "c", "k", " ">>
QUICK_2 == <<"b", "r", "o", "w", "n", " ", "f", "o", "x">>
QUICK_3 == <<" ", "j", "u", "m", "p", "s", " ", "o", "v", "e", "r", " ", "t", "h", "e", " ", "l", "a", "z", "y",
    " ", "d", "o", "g", ".">>
ParaQ == <<Run(QUICK_1), Run(QUICK_2), Run(QUICK_3)>>
\* the same paragraph behind a tab
ParaT == <<El(W_NS, "r", <<Leaf(W_NS, "tab", << >>, 0), WT(QUICK_1)>>), Run(QUICK_2), Run(QUICK_3)>>

BROWN_FOX_JUMPS == <<"b", "r", "o", "w", "n", " ", "f", "o", "x", " ", "j", "u", "m", "p", "s">>

\* a paragraph that begins with a bookmark, an element without text
ParaK == <<Leaf(W_NS, "bookmarkStart", << >>, 0), Run(<<"a", "b">>), Run(<<"c", "d">>)>>

FnDocs == { <<ParaQ>>, <<ParaT>> }
FnParagraphs == { ParaA, ParaB, ParaE, ParaM, ParaX, ParaK }
MaxOffset == 5
FnAnchors == { BROWN_FOX_JUMPS }

\* record lists over short anchors for the three-paragraph document: "b"
\* twice fills the one run of its paragraph, so that what follows finds a
\* space run appended
MaxAnchors == 3
ShortAnchors == { <<"b">>, <<"b", "z">>, <<"a", "b", SP, "c", "z">>, <<"a", "z">> }

\* a paragraph of 88 characters, the sentence twice, and an anchor of 82:
\* 80 characters of the paragraph from offset 4 on, then two that are not there
ParaL == <<Run(QUICK_1 \o QUICK_2 \o QUICK_3), Run(QUICK_1 \o QUICK_2 \o QUICK_3)>>
LONG_ANCHOR == SubSeq(QUICK_1 \o QUICK_2 \o QUICK_3 \o QUICK_1 \o QUICK_2 \o QUICK_3, 5, 84) \o <<"z", "z">>
AnchorLists == [1..MaxAnchors -> ShortAnchors]

\* a paragraph whose first run holds a text box with the paragraph "c" in
\* it, followed by the run "ab", and anchors for the two
ParaI == <<Run(<<"c">>)>>
ParaO == <<El(W_NS, "r", <<Leaf(W_NS, "txbxContent", << >>, 0), Leaf(W_NS, "p", << >>, 0)>> \o Walk(ParaI)),
           Run(<<"a", "b">>)>>
NestedAnchors == { <<"a", "b">>, <<"c", "z">> }

\* the documents and anchor lists the merge is called with
FnMerges ==
  { <<doc, <<a>>>> : doc \in FnDocs, a \in FnAnchors }
    \cup { <<SampleDoc, l>> : l \in AnchorLists }
    \cup { <<<<ParaL>>, <<LONG_ANCHOR>>>>, <<<<ParaL>>, <<LONG_ANCHOR, <<"z", "z">>, LONG_ANCHOR>>>> }
    \cup { <<<<ParaO, ParaI>>, l>> : l \in [1..MaxAnchors -> NestedAnchors] }

\* paragraph lists for the paragraph match: blank paragraphs, paragraphs
\* that tie on an anchor and paragraphs that share nothing with it
MaxParagraphs == 3
MatchTexts == { << >>, <<SP>>, <<"b">>, <<"a">>, <<"a", "b", SP, "c">> }
MatchAnchors == { <<"b">>, <<"a", "b">>, <<"b", "z">>, <<"z">>, <<SP>> }
TextLists == UNION { [1..n -> MatchTexts] : n \in 0..MaxParagraphs }

\* a paragraph that holds text in one run, or nothing
ParagraphOf(text) == IF text = << >> THEN << >> ELSE <<Run(text)>>

MergeList(anchors) == [k \in 1..Len(anchors) |-> Item(anchors[k], <<"n">>, Absent, Absent)]

\* a package and a comments file for one call of the merge
MergeArgs(doc, list) ==
  [fn |-> "mergeDocxAddNativeCommentsInPlace",
   docx |-> [isZip |-> TRUE, files |-> Files(doc, SampleContentTypes, << >>, SampleRels, TRUE)],
   cfile |-> [kind |-> "array", items |-> list]]

\* relationship parts: Ids with small numbers, with leading zeros, of another
\* form and with numbers next to 2^53, and a relationship of the comments type
MaxRels == 2
RelIds ==
  { <<"r", "I", "d", "1">>, <<"r", "I", "d", "9">>, <<"r", "I", "d", "1", "0">>,
    <<"r", "I", "d", "0", "0", "7">>, <<"R", "4", "2">>,
    <<"r", "I", "d">> \o ToDigits(MinusOne(TWO53)), <<"r", "I", "d">> \o ToDigits(TWO53) }
RelDocs ==
  UNION { [1..n -> { Rel(id, STYLES_REL_TYPE, "styles.xml") : id \in RelIds }
                     \cup { Rel(<<"r", "I", "d", "C">>, COMMENTS_REL_TYPE, "comments.xml") }] :
          n \in 0..MaxRels }

FnCalls ==
  { [fn |-> "normalizeForFuzzyIndexing", text |-> t] : t \in Texts(MaxText) }
    \cup { [fn |-> "ensureCommentsRelationship", documentRelsDoc |-> d] : d \in RelDocs }
    \cup { MergeArgs(m[1], MergeList(m[2])) : m \in FnMerges }
    \cup { [fn |-> "findBestAnchorCandidateIndexForOffset", paragraph |-> p, offset |-> o] :
             p \in FnParagraphs, o \in 0..MaxOffset }
    \cup { [fn |-> "findBestParagraphMatch",
            paragraphs |-> [p \in 1..Len(l) |-> ParagraphOf(l[p])],
            paragraphTexts |-> [p \in 1..Len(l) |-> getParagraphText(ParagraphOf(l[p]))],
            anchorText |-> a] : l \in TextLists, a \in MatchAnchors }

InitFn ==
  /\ PageIdle
  /\ SttIdle
  /\ calls = << >>
  /\ args \in FnCalls
  /\ ret = << >>

Call_normalizeForFuzzyIndexing ==
  /\ args.fn = "normalizeForFuzzyIndexing"
  /\ ret = << >>
  /\ ret' = <<normalizeForFuzzyIndexing(args.text)>>
  /\ UNCHANGED <<pageFlowVars, calls, args, sttVars>>

\* one call of the merge, from its start to the settling of its promise
Call_mergeDocxAddNativeCommentsInPlace ==
  /\ args.fn = "mergeDocxAddNativeCommentsInPlace"
  /\ ret = << >>
  /\ ret' = <<mergeDocxAddNativeCommentsInPlace(args.docx, args.cfile)>>
  /\ UNCHANGED <<pageFlowVars, calls, args, sttVars>>

Call_findBestAnchorCandidateIndexForOffset ==
  /\ args.fn = "findBestAnchorCandidateIndexForOffset"
  /\ ret = << >>
  /\ ret' = <<findBestAnchorCandidateIndexForOffset(args.paragraph, args.offset)>>
  /\ UNCHANGED <<pageFlowVars, calls, args, sttVars>>

Call_findBestParagraphMatch ==
  /\ args.fn = "findBestParagraphMatch"
  /\ ret = << >>
  /\ ret' = <<findBestParagraphMatch(args.paragraphs, args.paragraphTexts, args.anchorText)>>
  /\ UNCHANGED <<pageFlowVars, calls, args, sttVars>>

Call_ensureCommentsRelationship ==
  /\ args.fn = "ensureCommentsRelationship"
  /\ ret = << >>
  /\ ret' = <<ensureCommentsRelationship(args.documentRelsDoc)>>
  /\ UNCHANGED <<pageFlowVars, calls, args, sttVars>>

NextFn ==
  \/ Call_normalizeForFuzzyIndexing
  \/ Call_ensureCommentsRelationship
  \/ Call_findBestParagraphMatch
  \/ Call_findBestAnchorCandidateIndexForOffset
  \/ Call_mergeDocxAddNativeCommentsInPlace

SpecFn == InitFn /\ [][NextFn]_vars

\* ------------------------------------------------------------------------
\* Offline speech-to-text: the request broker and the preload manager
\* ------------------------------------------------------------------------
MaxRequests == 2

mergeVars == <<pageFlowVars, calls, fnVars>>
MaxStarts == 3

DEFAULT_MODEL_URL == "model/tiny"
DEFAULT_PRECISION == "quantized"
OTHER_MODEL_URL == "model/base"

LoadMessage(modelURL, precision) == [type |-> "load", modelURL |-> modelURL, precision |-> precision]
WarmupMessage == [type |-> "warmup"]
TranscribeMessage == [type |-> "transcribe"]

\* what the exported helpers hand to callWorker
CallerMessages ==
  { LoadMessage(DEFAULT_MODEL_URL, DEFAULT_PRECISION), WarmupMessage, TranscribeMessage }

\* what a worker message may hold: any type with any request ID
WorkerOutgoing == [type : {"loaded", "warmed", "result", "error"}, requestId : 0..(MaxRequests + 1)]

getWorker == IF worker # << >> THEN worker ELSE <<constructed + 1>>

callWorker(message) ==
  LET requestId == nextRequestId
      w == getWorker
  IN /\ nextRequestId' = nextRequestId + 1
     /\ worker' = w
     /\ constructed' = IF worker = << >> THEN constructed + 1 ELSE constructed
     /\ promises' = Append(promises, "pending")
     /\ settlements' = Append(settlements, << >>)
     /\ pending' = (requestId :> (Len(promises) + 1)) @@ pending
     /\ posted' = Append(posted, [message |-> message, requestId |-> requestId, worker |-> w[1]])

\* what the promise of an entry settles with on a worker message
Settle(msg) ==
  IF msg.type = "error" THEN "rejected"
  ELSE IF msg.type = "result" THEN "text"
  ELSE "true"

\* the entry stays in the table after it is settled
onmessage_keepEntry(msg) ==
  /\ handled' = <<[msg |-> msg, known |-> msg.requestId \in DOMAIN pending]>>
  /\ IF msg.requestId \notin DOMAIN pending
     THEN UNCHANGED <<pending, promises, settlements>>
     ELSE LET entry == pending[msg.requestId]
          IN /\ UNCHANGED pending
             /\ settlements' = [settlements EXCEPT ![entry] = Append(@, msg)]
             /\ promises' = [promises EXCEPT ![entry] = IF @ = "pending" THEN Settle(msg) ELSE @]

\* w.onmessage
onmessage(msg) ==
  /\ handled' = <<[msg |-> msg, known |-> msg.requestId \in DOMAIN pending]>>
  /\ IF msg.requestId \notin DOMAIN pending
     THEN UNCHANGED <<pending, promises, settlements>>
     ELSE LET entry == pending[msg.requestId]
          IN /\ pending' = [k \in DOMAIN pending \ {msg.requestId} |-> pending[k]]
             /\ settlements' = [settlements EXCEPT ![entry] = Append(@, msg)]
             /\ promises' = [promises EXCEPT ![entry] = IF @ = "pending" THEN Settle(msg) ELSE @]

\* a caller other than the preload (the voice editor) calls the worker
CallWorker ==
  /\ nextRequestId <= MaxRequests
  /\ \E message \in CallerMessages : callWorker(message)
  /\ UNCHANGED <<handled, preloadVars, mergeVars, workerVars>>

\* the worker posts a message and the handler runs
OnMessage ==
  /\ worker # << >>
  /\ \E msg \in WorkerOutgoing : onmessage(msg)
  /\ UNCHANGED <<worker, nextRequestId, constructed, posted, preloadVars, mergeVars, workerVars>>

\* --- the preload manager ---
StoredState(status, progress) == [json |-> TRUE, status |-> status, progress |-> progress]

\* what localStorage may hold when the page loads
StoredItems ==
  { << >>,
    <<[json |-> FALSE, status |-> "idle", progress |-> 0]>>,
    <<StoredState("ready", 100)>>,
    <<StoredState("error", 250)>>,
    <<StoredState("bogus", -1)>> }

Environments ==
  { [browser |-> FALSE, serviceWorker |-> FALSE, prefetchRoutes |-> FALSE] }
    \cup [browser : {TRUE}, serviceWorker : BOOLEAN, prefetchRoutes : BOOLEAN]

State(status, progress) == [status |-> status, progress |-> progress]

clampProgress(value) == Max(0, Min(100, value))

isBrowser == env.browser

getDefaultState == State("idle", 0)

Parsed(raw) ==
  State(IF raw.status \in {"loading", "ready", "error"} THEN raw.status ELSE "idle",
        clampProgress(raw.progress))

\* the state returned, and memoryState after the call
getOfflinePreloadState(memory) ==
  IF ~isBrowser THEN [state |-> getDefaultState, memoryState |-> memory]
  ELSE IF memory # << >> THEN [state |-> memory[1], memoryState |-> memory]
  ELSE IF storage = << >> \/ ~storage[1].json THEN [state |-> getDefaultState, memoryState |-> memory]
  ELSE [state |-> Parsed(storage[1]), memoryState |-> <<Parsed(storage[1])>>]

\* memoryState after setOfflinePreloadState(next)
setOfflinePreloadState(next) == <<State(next.status, clampProgress(next.progress))>>

\* the localStorage item after setOfflinePreloadState(next); a setItem that
\* fails is ignored by the code and the item is not read again once
\* memoryState is set
Stored(next) == <<StoredState(next.status, clampProgress(next.progress))>>

\* the catch and finally blocks of the run
Fail(r) ==
  LET current == getOfflinePreloadState(memoryState).state
      next == State("error", Min(current.progress, 95))
  IN /\ memoryState' = setOfflinePreloadState(next)
     /\ storage' = Stored(next)
     /\ runs' = [runs EXCEPT ![r].pc = "rejected"]
     /\ inFlight' = << >>

\* a step of the run that sets the loading state and goes on to await the next step
Advance(r, done, progress, to, req) ==
  LET next == State("loading", progress)
  IN /\ memoryState' = setOfflinePreloadState(next)
     /\ storage' = Stored(next)
     /\ runs' = [runs EXCEPT ![r].pc = to, ![r].steps = Append(@, done), ![r].req = req]
     /\ UNCHANGED inFlight

\* the entry of preloadCalls for a call
Seen(status, returned) == [status |-> status, inFlight |-> inFlight, returned |-> returned]

\* the synchronous part of a run that starts: two loading states are set, the
\* second by the run itself before its first await
Begin(current) ==
  LET next == State("loading", 5)
  IN /\ memoryState' = setOfflinePreloadState(next)
     /\ storage' = Stored(next)
     /\ runs' = Append(runs, [pc |-> "sw", steps |-> << >>, req |-> 0])
     /\ inFlight' = <<Len(runs) + 1>>
     /\ preloadCalls' = Append(preloadCalls, Seen(current.status, <<Len(runs) + 1>>))

\* a new run starts although one is in flight
startOfflinePreload_always ==
  LET got == getOfflinePreloadState(memoryState)
  IN IF ~isBrowser
     THEN /\ preloadCalls' = Append(preloadCalls, Seen("none", << >>))
          /\ UNCHANGED <<inFlight, memoryState, storage, runs>>
     ELSE IF got.state.status = "ready"
     THEN /\ preloadCalls' = Append(preloadCalls, Seen("ready", << >>))
          /\ memoryState' = got.memoryState
          /\ UNCHANGED <<inFlight, storage, runs>>
     ELSE Begin(got.state)

startOfflinePreload ==
  LET got == getOfflinePreloadState(memoryState)
  IN IF ~isBrowser
     THEN /\ preloadCalls' = Append(preloadCalls, Seen("none", << >>))
          /\ UNCHANGED <<inFlight, memoryState, storage, runs>>
     ELSE IF got.state.status = "ready"
     THEN /\ preloadCalls' = Append(preloadCalls, Seen("ready", << >>))
          /\ memoryState' = got.memoryState
          /\ UNCHANGED <<inFlight, storage, runs>>
     ELSE IF inFlight # << >>
     THEN /\ preloadCalls' = Append(preloadCalls, Seen(got.state.status, inFlight))
          /\ memoryState' = got.memoryState
          /\ UNCHANGED <<inFlight, storage, runs>>
     ELSE Begin(got.state)

\* the page calls startOfflinePreload
StartOfflinePreload ==
  /\ Len(preloadCalls) < MaxStarts
  /\ startOfflinePreload
  /\ UNCHANGED <<env, brokerVars, mergeVars, workerVars>>

\* ensureServiceWorkerReady settles: without navigator.serviceWorker it returns at
\* once; with it, the page is controlled within the grace period or the call throws
ServiceWorkerSettled(r) ==
  /\ runs[r].pc = "sw"
  /\ \E controlled \in BOOLEAN :
       IF ~env.serviceWorker \/ controlled
       THEN Advance(r, "sw", 15, "shell", 0)
       ELSE Fail(r)
  /\ UNCHANGED <<env, preloadCalls, brokerVars, mergeVars, workerVars>>

\* the first call of ensureMoonshineReady
RequestLoad == callWorker(LoadMessage(DEFAULT_MODEL_URL, DEFAULT_PRECISION))

\* warmPwaShellAssets settles (it ignores every failure)
ShellWarmed(r) ==
  /\ runs[r].pc = "shell"
  /\ IF env.prefetchRoutes
     THEN /\ Advance(r, "shell", 30, "prefetch", 0)
          /\ UNCHANGED brokerVars
     ELSE /\ nextRequestId <= MaxRequests
          /\ Advance(r, "shell", 55, "load", Len(promises) + 1)
          /\ RequestLoad
          /\ UNCHANGED handled
  /\ UNCHANGED <<env, preloadCalls, mergeVars, workerVars>>

\* options.prefetchRoutes settles
PrefetchSettled(r) ==
  /\ runs[r].pc = "prefetch"
  /\ \E ok \in BOOLEAN :
       IF ok
       THEN /\ nextRequestId <= MaxRequests
            /\ Advance(r, "prefetch", 55, "load", Len(promises) + 1)
            /\ RequestLoad
            /\ UNCHANGED handled
       ELSE /\ Fail(r)
            /\ UNCHANGED brokerVars
  /\ UNCHANGED <<env, preloadCalls, mergeVars, workerVars>>

\* ensureMoonshineReady: the load call settled, the warmup call is made
LoadSettled(r) ==
  /\ runs[r].pc = "load"
  /\ promises[runs[r].req] # "pending"
  /\ IF promises[runs[r].req] = "rejected"
     THEN /\ Fail(r)
          /\ UNCHANGED brokerVars
     ELSE /\ nextRequestId <= MaxRequests
          /\ runs' = [runs EXCEPT ![r].pc = "warmup", ![r].steps = Append(@, "load"), ![r].req = Len(promises) + 1]
          /\ callWorker(WarmupMessage)
          /\ UNCHANGED <<handled, inFlight, memoryState, storage>>
  /\ UNCHANGED <<env, preloadCalls, mergeVars, workerVars>>

\* ensureMoonshineReady settled: the run sets ready, or fails; inFlight is cleared
WarmupSettled(r) ==
  /\ runs[r].pc = "warmup"
  /\ promises[runs[r].req] # "pending"
  /\ IF promises[runs[r].req] = "rejected"
     THEN Fail(r)
     ELSE LET next == State("ready", 100)
          IN /\ memoryState' = setOfflinePreloadState(next)
             /\ storage' = Stored(next)
             /\ runs' = [runs EXCEPT ![r].pc = "resolved", ![r].steps = Append(@, "warmup")]
             /\ inFlight' = << >>
  /\ UNCHANGED <<env, preloadCalls, brokerVars, mergeVars, workerVars>>

\* the merge takes no part
MergeIdle == PageIdle /\ calls = << >> /\ args = << >> /\ ret = << >>

\* the broker with any callers, the preload manager in a runtime without window
InitBroker == MergeIdle /\ BrokerIdle /\ PreloadIdle /\ WorkerIdle

NextBroker ==
  \/ CallWorker
  \/ OnMessage

SpecBroker == InitBroker /\ [][NextBroker]_vars

\* the preload manager as the only caller of the broker
InitPreload ==
  /\ MergeIdle
  /\ BrokerIdle
  /\ WorkerIdle
  /\ inFlight = << >>
  /\ memoryState = << >>
  /\ storage \in StoredItems
  /\ env \in Environments
  /\ runs = << >>
  /\ preloadCalls = << >>

NextPreload ==
  \/ OnMessage
  \/ StartOfflinePreload
  \/ \E r \in 1..Len(runs) : ServiceWorkerSettled(r)
  \/ \E r \in 1..Len(runs) : ShellWarmed(r)
  \/ \E r \in 1..Len(runs) : PrefetchSettled(r)
  \/ \E r \in 1..Len(runs) : LoadSettled(r)
  \/ \E r \in 1..Len(runs) : WarmupSettled(r)

SpecPreload == InitPreload /\ [][NextPreload]_vars

\* ------------------------------------------------------------------------
\* Offline speech-to-text: the worker
\* ------------------------------------------------------------------------
MaxTasks == 3

\* precision is optional in a load message: << >> is undefined
Incoming ==
  { [type |-> "load", modelURL |-> DEFAULT_MODEL_URL, precision |-> <<DEFAULT_PRECISION>>],
    [type |-> "load", modelURL |-> DEFAULT_MODEL_URL, precision |-> << >>],
    [type |-> "load", modelURL |-> OTHER_MODEL_URL, precision |-> <<DEFAULT_PRECISION>>],
    [type |-> "warmup"],
    [type |-> "transcribe"] }

\* msg.precision ?? "quantized"
PrecisionOf(msg) == IF msg.precision = << >> THEN "quantized" ELSE msg.precision[1]

getModelKey(modelURL, precision) == modelURL \o "::" \o precision

\* post(msg), with the worker's state at that moment kept beside the message
post(type, requestId) ==
  outbox' = Append(outbox, [type |-> type, requestId |-> requestId, model |-> model,
                            load |-> IF model = << >> THEN "none" ELSE models[model[1]].load])

\* getMoonshine(): the import is started once
getMoonshine == IF moonshineImportPromise = "null" THEN "pending" ELSE moonshineImportPromise

\* self.onmessage: the handler runs up to its first await, or to its end
Receive ==
  /\ Len(tasks) < MaxTasks
  /\ \E msg \in Incoming :
       LET requestId == Len(tasks) + 1
       IN IF msg.type = "load"
          THEN /\ moonshineImportPromise' = getMoonshine
               /\ tasks' = Append(tasks, [msg |-> msg, requestId |-> requestId, pc |-> "import", awaits |-> 0])
               /\ UNCHANGED outbox
          ELSE IF model = << >>
          THEN /\ post("error", requestId)
               /\ tasks' = Append(tasks, [msg |-> msg, requestId |-> requestId, pc |-> "done", awaits |-> 0])
               /\ UNCHANGED moonshineImportPromise
          ELSE /\ tasks' = Append(tasks, [msg |-> msg, requestId |-> requestId, pc |-> "generate", awaits |-> model[1]])
               /\ UNCHANGED <<outbox, moonshineImportPromise>>
  /\ UNCHANGED <<model, modelKey, loadPromise, models>>
  /\ UNCHANGED <<mergeVars, brokerVars, preloadVars>>

\* the dynamic import of the Moonshine module settles
ImportSettled ==
  /\ moonshineImportPromise = "pending"
  /\ \E ok \in BOOLEAN : moonshineImportPromise' = IF ok THEN "fulfilled" ELSE "rejected"
  /\ UNCHANGED <<model, modelKey, loadPromise, models, tasks, outbox>>
  /\ UNCHANGED <<mergeVars, brokerVars, preloadVars>>

\* ensureLoaded goes on after the import: it makes the model when there is
\* none or its key differs, starts loadModel() when no load is under way,
\* and awaits loadPromise
ensureLoaded(t) ==
  LET nextKey == getModelKey(tasks[t].msg.modelURL, PrecisionOf(tasks[t].msg))
      fresh == model = << >> \/ modelKey # <<nextKey>>
      m == IF fresh THEN Len(models) + 1 ELSE model[1]
      made == IF fresh
              THEN Append(models, [modelURL |-> tasks[t].msg.modelURL, precision |-> PrecisionOf(tasks[t].msg),
                                   load |-> "none"])
              ELSE models
      start == fresh \/ loadPromise = << >>
  IN /\ model' = <<m>>
     /\ modelKey' = <<nextKey>>
     /\ loadPromise' = IF start THEN <<m>> ELSE loadPromise
     /\ models' = IF start THEN [made EXCEPT ![m].load = "pending"] ELSE made
     /\ tasks' = [tasks EXCEPT ![t].pc = "loading", ![t].awaits = IF start THEN m ELSE loadPromise[1]]

\* a load handler goes on after the import settled
ImportResumed(t) ==
  /\ tasks[t].pc = "import"
  /\ moonshineImportPromise \in {"fulfilled", "rejected"}
  /\ IF moonshineImportPromise = "rejected"
     THEN /\ post("error", tasks[t].requestId)
          /\ tasks' = [tasks EXCEPT ![t].pc = "done"]
          /\ UNCHANGED <<model, modelKey, loadPromise, models>>
     ELSE /\ ensureLoaded(t)
          /\ UNCHANGED outbox
  /\ UNCHANGED moonshineImportPromise
  /\ UNCHANGED <<mergeVars, brokerVars, preloadVars>>

\* loadModel() of model m settles
LoadModelSettled(m) ==
  /\ models[m].load = "pending"
  /\ \E ok \in BOOLEAN : models' = [models EXCEPT ![m].load = IF ok THEN "done" ELSE "failed"]
  /\ UNCHANGED <<model, modelKey, loadPromise, moonshineImportPromise, tasks, outbox>>
  /\ UNCHANGED <<mergeVars, brokerVars, preloadVars>>

\* a load handler goes on after the promise it awaits settled
LoadResumed(t) ==
  /\ tasks[t].pc = "loading"
  /\ models[tasks[t].awaits].load \in {"done", "failed"}
  /\ post(IF models[tasks[t].awaits].load = "done" THEN "loaded" ELSE "error", tasks[t].requestId)
  /\ tasks' = [tasks EXCEPT ![t].pc = "done"]
  /\ UNCHANGED <<model, modelKey, loadPromise, moonshineImportPromise, models>>
  /\ UNCHANGED <<mergeVars, brokerVars, preloadVars>>

\* model.generate() settles and the warmup or transcribe handler goes on
GenerateResumed(t) ==
  /\ tasks[t].pc = "generate"
  /\ \E ok \in BOOLEAN :
       post(IF ~ok THEN "error" ELSE IF tasks[t].msg.type = "warmup" THEN "warmed" ELSE "result",
            tasks[t].requestId)
  /\ tasks' = [tasks EXCEPT ![t].pc = "done"]
  /\ UNCHANGED <<model, modelKey, loadPromise, moonshineImportPromise, models>>
  /\ UNCHANGED <<mergeVars, brokerVars, preloadVars>>

InitWorker == MergeIdle /\ BrokerIdle /\ PreloadIdle /\ WorkerIdle

NextWorker ==
  \/ Receive
  \/ ImportSettled
  \/ \E t \in 1..Len(tasks) : ImportResumed(t)
  \/ \E m \in 1..Len(models) : LoadModelSettled(m)
  \/ \E t \in 1..Len(tasks) : LoadResumed(t)
  \/ \E t \in 1..Len(tasks) : GenerateResumed(t)

SpecWorker == InitWorker /\ [][NextWorker]_vars

\* ------------------------------------------------------------------------
\* Properties
\* ------------------------------------------------------------------------
InputFiles == docxFile.files
InputComments == IF COMMENTS \in DOMAIN InputFiles THEN InputFiles[COMMENTS].body ELSE << >>
InputRecords == commentsFile.items

\* the call has parsed its inputs and reached the record loop
Opened == nextCommentId > 0

\* the call returned
Returned == settled # << >> /\ settled[1].ok
Output == settled[1].blob.files
Report == settled[1].result

SetMax(S) == IF S = {} THEN 0 ELSE CHOOSE m \in S : \A x \in S : x <= m

\* positions in commentsDoc of the comments this run added
AddedComments == (Len(InputComments) + 1)..Len(commentsDoc)

C2_AllFiveReparsed ==
  Returned =>
    /\ settled[1].blob.magic = <<80, 75>>
    /\ \A n \in {CT, ROOTRELS, DOC, RELS, COMMENTS} : n \in DOMAIN Output /\ Output[n].wf

\* C2 amended: whenever the merge returns, the bytes begin with the zip
\* signature, the five required parts are in the output, and the four parts
\* the merge wrote parse as XML (_rels/.rels is checked for presence only);
\* a written package that lacks one of the five or in which one of the four
\* does not parse makes the merge fail.
C2_WrittenPartsReparsed ==
  /\ [](Returned =>
          /\ settled[1].blob.magic = <<80, 75>>
          /\ {CT, ROOTRELS, DOC, RELS, COMMENTS} \subseteq DOMAIN Output
          /\ \A n \in {CT, DOC, RELS, COMMENTS} : Output[n].wf)
  /\ [][(/\ pc = "written"
         /\ \/ ~({CT, ROOTRELS, DOC, RELS, COMMENTS} \subseteq DOMAIN zip)
            \/ \E n \in {CT, DOC, RELS, COMMENTS} \cap DOMAIN zip : ~zip[n].wf)
        => pc' = "rejected"]_vars

\* a merge over records none of which matched returned output
C2_Witness ==
  /\ Returned
  /\ Len(InputRecords) > 0
  /\ mergedCount = 0

\* the merged entries of the history that precede entry k and chose the same paragraph
EarlierOnSameParagraph(k) ==
  { j \in 1..(k - 1) : log[j].merged /\ log[j].bestIndex = log[k].bestIndex }

\* C3: two merged records of one run whose best-matching paragraph is the
\* same are reported with different anchorNodeIndex values; the later one is
\* moved forward from the index its offset designates to the first index no
\* earlier record of the run used for that paragraph.
C3_DistinctAnchorNodeIndex ==
  /\ \A a, b \in 1..Len(details) :
       (a # b /\ log[details[a].index + 1].bestIndex = log[details[b].index + 1].bestIndex)
         => details[a].anchorNodeIndex # details[b].anchorNodeIndex
  /\ \A d \in 1..Len(details) :
       LET k == details[d].index + 1
           offset == IF details[d].approxStart = Null THEN 0 ELSE details[d].approxStart
           base == findBestAnchorCandidateIndexForOffset(log[k].before, offset)
           taken == { log[j].anchorIdx : j \in EarlierOnSameParagraph(k) }
       IN /\ details[d].anchorNodeIndex >= base
          /\ details[d].anchorNodeIndex \notin taken
          /\ \A m \in base..(details[d].anchorNodeIndex - 1) : m \in taken

\* two records matched the same paragraph at the same offset and the later one was moved
C3_Witness ==
  \E a, b \in 1..Len(details) :
    /\ a < b
    /\ log[details[a].index + 1].bestIndex = log[details[b].index + 1].bestIndex
    /\ details[a].approxStart = details[b].approxStart
    /\ details[b].approxStart # Null
    /\ details[b].anchorNodeIndex =
         findBestAnchorCandidateIndexForOffset(log[details[b].index + 1].before, details[b].approxStart) + 1

\* the child sequence without the elements at positions at, at + 2 and at + 3
WithoutMarkers(children, at) ==
  SubSeq(children, 1, at - 1) \o <<children[at + 1]>> \o SubSeq(children, at + 4, Len(children))

\* C4: the step that merges a record with ID k changes one paragraph only,
\* and leaves in it, consecutively, commentRangeStart(k), the anchor node,
\* commentRangeEnd(k) and a run holding commentReference(k); taking these
\* three out gives back the paragraph as it was (the anchor node kept its
\* place among its siblings), or the paragraph as it was with one space run
\* appended, that run being the anchor node, when the index designates no
\* eligible child.
C4_MarkersAroundAnchor ==
  [][mergedCount' = mergedCount + 1 =>
       LET k == nextCommentId IN
       /\ Len(documentDoc') = Len(documentDoc)
       /\ \E p \in 1..Len(documentDoc) :
            /\ \A q \in 1..Len(documentDoc) : q # p => documentDoc'[q] = documentDoc[q]
            /\ LET before == documentDoc[p]
                   after == documentDoc'[p]
                   candidates == getDirectChildAnchorCandidates(before)
                   idx == details'[Len(details')].anchorNodeIndex
               IN \E at \in 1..(Len(after) - 3) :
                    /\ after[at] = RangeStart(k)
                    /\ after[at + 2] = RangeEnd(k)
                    /\ after[at + 3].tag = "r"
                    /\ after[at + 3].desc[Len(after[at + 3].desc)] = Leaf(W_NS, "commentReference", << >>, k)
                    /\ IF idx < Len(candidates)
                       THEN /\ after[at + 1] = candidates[idx + 1]
                            /\ WithoutMarkers(after, at) = before
                       ELSE /\ after[at + 1] = createSpaceRun
                            /\ at + 3 = Len(after)
                            /\ WithoutMarkers(after, at) = Append(before, createSpaceRun)]_vars

\* a record was merged around an existing run that has siblings on both sides
C4_Witness ==
  \E k \in 1..Len(log) :
    /\ log[k].merged
    /\ log[k].before = ParaA
    /\ log[k].anchorIdx = 0
    /\ Len(log[k].after) = Len(ParaA) + 3

\* C5: for every merge that returns, totalCount is the number of elements of
\* the input records array and 0 <= mergedCount <= totalCount.
C5_Counts ==
  Returned =>
    /\ Report.totalCount = Len(InputRecords)
    /\ 0 <= Report.mergedCount
    /\ Report.mergedCount <= Report.totalCount

\* a merge returned with some records merged and some skipped
C5_Witness ==
  /\ Returned
  /\ 0 < Report.mergedCount
  /\ Report.mergedCount < Report.totalCount

WRITTEN == {DOC, COMMENTS, CT, RELS}

\* C6: a merge whose package lacks word/document.xml or [Content_Types].xml,
\* or whose comments input parses to something that is not an array, never
\* writes or returns output: its promise rejects, and the page gets an error
\* and neither a report nor a download, however many records were applied.
C6_FatalInputsAbort ==
  (\/ DOC \notin DOMAIN InputFiles
   \/ CT \notin DOMAIN InputFiles
   \/ commentsFile.kind = "object")
    => /\ pc \notin {"written", "resolved"}
       /\ settled # << >> => ~settled[1].ok
       /\ result = << >>
       /\ downloads = << >>
       /\ pc = "settled" => (Len(toasts) = 1 /\ toasts[1] # "success")

\* the merge aborted for a missing [Content_Types].xml after records were applied
C6_Witness ==
  /\ CT \notin DOMAIN InputFiles
  /\ pc = "settled"
  /\ mergedCount > 0
  /\ Len(commentsDoc) > Len(InputComments)

\* the strings of a record that end up in the comments part
RecordTextsClean(item) ==
  /\ XmlChars(OrElse(item.author, << >>))
  /\ XmlChars(OrElse(item.comment_text, << >>))
  /\ XmlChars(OrElse(item.edit_type_label, << >>))

\* C7 as stated: a package holding word/document.xml and [Content_Types].xml,
\* all of whose merged parts are well-formed, is merged without failure for
\* any array of records whose texts XML can carry.
C7_TwoPartsSuffice ==
  (/\ docxFile.isZip
   /\ commentsFile.kind = "array"
   /\ {DOC, CT} \subseteq DOMAIN InputFiles
   /\ \A n \in {DOC, CT, COMMENTS, RELS} \cap DOMAIN InputFiles : InputFiles[n].wf
   /\ \A k \in 1..Len(InputRecords) : RecordTextsClean(InputRecords[k]))
    => pc # "rejected"

\* C7 amended: a package holding word/document.xml, [Content_Types].xml and
\* _rels/.rels, in which the first two and, when present, word/comments.xml
\* and word/_rels/document.xml.rels are well-formed, is merged without
\* failure for any array of records whose texts XML can carry, whether or not
\* the comments and relationships parts exist; an absent one is synthesized
\* empty, so the output part holds only what the merge added.
C7_ThreePartsSuffice ==
  (/\ docxFile.isZip
   /\ commentsFile.kind = "array"
   /\ {DOC, CT, ROOTRELS} \subseteq DOMAIN InputFiles
   /\ \A n \in {DOC, CT, COMMENTS, RELS} \cap DOMAIN InputFiles : InputFiles[n].wf
   /\ \A k \in 1..Len(InputRecords) : RecordTextsClean(InputRecords[k]))
    => /\ pc # "rejected"
       /\ pc = "settled" => (Returned /\ result = <<Report>>)
       /\ Returned =>
            /\ COMMENTS \notin DOMAIN InputFiles => Len(Output[COMMENTS].body) = Report.mergedCount
            /\ RELS \notin DOMAIN InputFiles =>
                 (/\ Len(Output[RELS].body) = 1
                  /\ Output[RELS].body[1].Type = COMMENTS_REL_TYPE)

\* a package with neither comments nor relationships part was merged
C7_Witness ==
  /\ Returned
  /\ COMMENTS \notin DOMAIN InputFiles
  /\ RELS \notin DOMAIN InputFiles
  /\ Report.mergedCount > 0

BlankAnchor(item) ==
  \/ item.anchor_text = Absent
  \/ \A k \in 1..Len(item.anchor_text) : IsSpace(item.anchor_text[k])

\* C8: the loop step for a record whose anchor_text is missing, empty or
\* whitespace-only finds paragraph -1 with score 0, adds no comment, consumes
\* no ID, leaves the document tree, mergedCount and details as they are, does
\* not throw and moves on to the next record; the package is written only
\* after every record has been processed.
C8_BlankAnchorSkipped ==
  /\ [][(pc = "loop" /\ i < Len(items) /\ BlankAnchor(items[i + 1]))
          => LET best == findBestParagraphMatch(documentDoc, paragraphTexts, OrElse(items[i + 1].anchor_text, << >>))
             IN /\ best.bestIndex = -1
                /\ best.bestScore = 0
                /\ commentsDoc' = commentsDoc
                /\ nextCommentId' = nextCommentId
                /\ documentDoc' = documentDoc
                /\ mergedCount' = mergedCount
                /\ details' = details
                /\ pc' = "loop"
                /\ i' = i + 1]_vars
  /\ [](pc = "written" => (i = Len(items) /\ Len(log) = Len(items)))

\* a whitespace-only anchor was skipped and the record after it was merged
C8_Witness ==
  \E k \in 1..(Len(log) - 1) :
    /\ items[k].anchor_text # Absent
    /\ items[k].anchor_text # << >>
    /\ BlankAnchor(items[k])
    /\ ~log[k].merged
    /\ log[k + 1].merged

InputRels == IF RELS \in DOMAIN InputFiles THEN InputFiles[RELS].body ELSE << >>
HasOverride(contentTypesDoc) ==
  \E k \in 1..Len(contentTypesDoc) : contentTypesDoc[k].PartName = COMMENTS_PARTNAME
HasCommentsRel(relsDoc) ==
  \E k \in 1..Len(relsDoc) : relsDoc[k].Type = COMMENTS_REL_TYPE

C10_OtherPartsUntouched ==
  /\ [](Returned =>
          /\ DOMAIN Output = DOMAIN InputFiles \cup WRITTEN
          /\ \A n \in DOMAIN InputFiles \ WRITTEN : Output[n] = InputFiles[n])
  /\ [][pc' = "written" =>
          /\ DOMAIN zip' = DOMAIN zip \cup WRITTEN
          /\ \A n \in DOMAIN zip \ WRITTEN : zip'[n] = zip[n]]_vars

\* a merge that added comments returned a package that still has its styles and package relationships
C10_Witness ==
  /\ Returned
  /\ Report.mergedCount > 0
  /\ {STYLES, ROOTRELS} \subseteq DOMAIN Output
  /\ Output[STYLES] = InputFiles[STYLES]

\* the record at index k (0-based) of the input finds a paragraph
Matches(k) ==
  findBestParagraphMatch(documentDoc, paragraphTexts, OrElse(InputRecords[k + 1].anchor_text, << >>)).bestIndex >= 0

\* C11 as stated: after a merge over N records the report's details hold an
\* entry for each record index 0..N-1, merged or skipped.
C11_EveryRecordDescribed ==
  Returned =>
    \A k \in 0..(Len(InputRecords) - 1) :
      \E d \in 1..Len(Report.details) : Report.details[d].index = k

\* C11 amended: the report's details hold one entry for each merged record
\* and none for a skipped one: their number is mergedCount, their indexes
\* increase, and index k has an entry exactly when record k found a
\* paragraph; the skipped records show only in totalCount - mergedCount.
C11_MergedRecordsDescribed ==
  Returned =>
    /\ Len(Report.details) = Report.mergedCount
    /\ \A a, b \in 1..Len(Report.details) :
         a < b => Report.details[a].index < Report.details[b].index
    /\ \A k \in 0..(Len(InputRecords) - 1) :
         (\E d \in 1..Len(Report.details) : Report.details[d].index = k) <=> Matches(k)

\* the first of two records was skipped and the report describes the second only
C11_Witness ==
  /\ Returned
  /\ Len(InputRecords) = 2
  /\ Len(Report.details) = 1
  /\ Report.details[1].index = 1

\* how many entries of a manifest declare the comments part, how many relate to it
OverrideCount(contentTypesDoc) ==
  Cardinality({ k \in 1..Len(contentTypesDoc) : contentTypesDoc[k].PartName = COMMENTS_PARTNAME })
CommentsRelCount(relsDoc) ==
  Cardinality({ k \in 1..Len(relsDoc) : relsDoc[k].Type = COMMENTS_REL_TYPE })

\* the merge run again on the output of the run that returned, with the same records
MergedAgain == mergeDocxAddNativeCommentsInPlace([isZip |-> TRUE, files |-> Output], commentsFile)

\* C12: in the output of a merge the content types are those of the input,
\* with one Override for /word/comments.xml appended when the input had none
\* and nothing appended otherwise, and likewise the relationships with one
\* relationship of the comments type; either fix-up applied to its own
\* result changes nothing, and a merge of the output returns a package with
\* the same content types and relationships.
C12_FixupsIdempotent ==
  Returned =>
    LET ctIn == InputFiles[CT].body
        ctOut == Output[CT].body
        relsIn == InputRels
        relsOut == Output[RELS].body
    IN /\ IF OverrideCount(ctIn) > 0 THEN ctOut = ctIn
          ELSE /\ SubSeq(ctOut, 1, Len(ctIn)) = ctIn
               /\ Len(ctOut) = Len(ctIn) + 1
               /\ OverrideCount(ctOut) = 1
       /\ IF CommentsRelCount(relsIn) > 0 THEN relsOut = relsIn
          ELSE /\ SubSeq(relsOut, 1, Len(relsIn)) = relsIn
               /\ Len(relsOut) = Len(relsIn) + 1
               /\ CommentsRelCount(relsOut) = 1
       /\ ensureCommentsPartInContentTypes(ctOut) = ctOut
       /\ ensureCommentsPartInContentTypes(ensureCommentsPartInContentTypes(ctIn))
            = ensureCommentsPartInContentTypes(ctIn)
       /\ ensureCommentsRelationship(relsOut) = relsOut
       /\ ensureCommentsRelationship(ensureCommentsRelationship(relsIn))
            = ensureCommentsRelationship(relsIn)
       /\ MergedAgain.pc = "resolved"
       /\ MergedAgain.zip[CT].body = ctOut
       /\ MergedAgain.zip[RELS].body = relsOut

\* both fix-ups acted: the input declared no comments part and its three
\* relationships held none of the comments type
C12_Witness ==
  /\ Returned
  /\ OverrideCount(InputFiles[CT].body) = 0
  /\ Len(InputRels) = 3
  /\ CommentsRelCount(InputRels) = 0
  /\ OverrideCount(Output[CT].body) = 1
  /\ CommentsRelCount(Output[RELS].body) = 1
  /\ Report.mergedCount > 0

\* call c is at a point of the run that starts at s and runs alone
RECURSIVE InRun(_, _)
InRun(s, c) == s = c \/ (~CallDone(s) /\ InRun(CallStep(s), c))

Emitted(text, k) == IF IsSpace(text[k + 1]) THEN SP ELSE NormChar(text[k + 1])

\* C14: normalizeForFuzzyIndexing returns a normalized string and an index
\* map of the same length, the map non-decreasing and its entry i the offset
\* in the input of the character that produced character i of the normalized
\* string, also when spaces were trimmed from its ends.
C14_MapAlignedWithNormalized ==
  (args # << >> /\ args.fn = "normalizeForFuzzyIndexing" /\ ret # << >>) =>
    LET normalized == ret[1].normalized
        normToOrig == ret[1].normToOrig
    IN /\ Len(normToOrig) = Len(normalized)
       /\ \A k \in 1..Len(normToOrig) :
            /\ normToOrig[k] \in 0..(Len(args.text) - 1)
            /\ normalized[k] = Emitted(args.text, normToOrig[k])
            /\ k > 1 => normToOrig[k - 1] <= normToOrig[k]

\* the merge was called on its own and returned
MergeReturned ==
  /\ args # << >>
  /\ args.fn = "mergeDocxAddNativeCommentsInPlace"
  /\ ret # << >>
  /\ ret[1].pc = "resolved"

AnchorOf(call, d) == OrElse(call.items[call.details[d].index + 1].anchor_text, << >>)

\* the text, as extracted at the start, of the paragraph matched for details entry d
MatchedText(call, d) ==
  call.paragraphTexts[findBestParagraphMatch(call.documentDoc, call.paragraphTexts, AnchorOf(call, d)).bestIndex + 1]

IsPrefixOf(p, s) == Len(p) <= Len(s) /\ SubSeq(s, 1, Len(p)) = p

\* the least offset of text at which a non-space character starts a stretch
\* whose normalized form begins with needle
OccurrenceStart(text, needle) ==
  LET starts == { o \in 0..(Len(text) - 1) :
                    /\ ~IsSpace(text[o + 1])
                    /\ IsPrefixOf(needle, normalizeForFuzzySearch(Slice(text, o, Len(text)))) }
  IN CHOOSE o \in starts : \A x \in starts : o <= x

\* C15: for every merged record whose normalized anchor occurs in the
\* normalized text of its paragraph, startMethod is "substring" and
\* approxStart is the offset, in the paragraph text, of the character at
\* which the first occurrence begins, whatever whitespace the text starts with.
C15_SubstringStartsAtOccurrence ==
  MergeReturned =>
    \A d \in 1..Len(ret[1].details) :
      LET normAnchor == normalizeForFuzzySearch(AnchorOf(ret[1], d))
          paraText == MatchedText(ret[1], d)
      IN (normAnchor # << >> /\ Includes(normalizeForFuzzySearch(paraText), normAnchor)) =>
           /\ ret[1].details[d].startMethod = "substring"
           /\ ret[1].details[d].approxStart = OccurrenceStart(paraText, normAnchor)

\* the text length of the first n of the candidates, by the extractor's rules
RECURSIVE TextLengthUpTo(_, _)
TextLengthUpTo(candidates, n) ==
  IF n = 0 THEN 0
  ELSE TextLengthUpTo(candidates, n - 1) + Len(ConcatText(candidates[n].desc))

RECURSIVE WidenedLengthUpTo(_, _)
WidenedLengthUpTo(candidates, n) ==
  IF n = 0 THEN 0
  ELSE WidenedLengthUpTo(candidates, n - 1) + Max(1, Len(ConcatText(candidates[n].desc)))

InputParagraph(p) == InputFiles[DOC].body[p]

\* the iterations so far that found no eligible child at the index they were
\* given in paragraph p and appended a space run to it
SpaceRunsAppended(p) ==
  Cardinality({k \in 1..Len(log) :
     /\ log[k].merged
     /\ log[k].bestIndex = p - 1
     /\ log[k].anchorIdx >= Len(getDirectChildAnchorCandidates(log[k].before))})

ParagraphOfComment(call, id) ==
  CHOOSE p \in 1..Len(call.documentDoc) :
    \E k \in 1..Len(call.documentDoc[p]) :
      /\ call.documentDoc[p][k].tag = "commentRangeStart"
      /\ call.documentDoc[p][k].id = id

\* the id given to the comment of details entry d of a call
CommentIdOf(call, d) == call.nextCommentId - Len(call.details) + (d - 1)

\* record number index of a call, merged alone into the document of the call
MergedAlone(index) ==
  mergeDocxAddNativeCommentsInPlace(args.docx, [kind |-> "array", items |-> <<args.cfile.items[index + 1]>>])

\* C18: the paragraph chosen for a record, its score, its startMethod and
\* its approxStart are those the record gets when it is merged alone into
\* the same document, whatever the records before it inserted.
C18_MatchingReadsSnapshots ==
  MergeReturned =>
    \A d \in 1..Len(ret[1].details) :
      LET entry == ret[1].details[d]
          alone == MergedAlone(entry.index)
      IN /\ alone.pc = "resolved"
         /\ Len(alone.details) = 1
         /\ alone.details[1].score = entry.score
         /\ alone.details[1].startMethod = entry.startMethod
         /\ alone.details[1].approxStart = entry.approxStart
         /\ ParagraphOfComment(alone, CommentIdOf(alone, 1)) = ParagraphOfComment(ret[1], CommentIdOf(ret[1], d))

\* "b", "b", "bz" merged into the three-paragraph document: the second
\* record left a space run in the paragraph "b", whose text in the tree is
\* then "b ", and the third is still scored 100 against "b" and leaves a
\* space run of its own
C18_Witness ==
  /\ MergeReturned
  /\ Len(ret[1].details) = 3
  /\ AnchorOf(ret[1], 3) = <<"b", "z">>
  /\ ret[1].details[3].score = 100
  /\ getParagraphText(ret[1].documentDoc[2]) = <<"b", SP, SP>>
  /\ ParagraphOfComment(ret[1], CommentIdOf(ret[1], 3)) = 2

MatchReturned == args # << >> /\ args.fn = "findBestParagraphMatch" /\ ret # << >>

\* the indices of the paragraphs whose text is not blank
NonBlank(texts) == { p \in 0..(Len(texts) - 1) : \E k \in 1..Len(texts[p + 1]) : ~IsSpace(texts[p + 1][k]) }

ScoreOf(anchorText, texts, p) == PartialRatio(cleanAnchorText(anchorText), texts[p + 1])

\* the greatest score over the paragraphs that are not blank, 0 when there is none
TopScore(anchorText, texts) == SetMax({ ScoreOf(anchorText, texts, p) : p \in NonBlank(texts) })

\* the lowest index among the paragraphs that are not blank and reach the greatest score
FirstTop(anchorText, texts) ==
  LET tops == { p \in NonBlank(texts) : ScoreOf(anchorText, texts, p) = TopScore(anchorText, texts) }
  IN CHOOSE p \in tops : \A q \in tops : p <= q

\* C19: for an anchor that is not blank, findBestParagraphMatch returns the
\* lowest-index paragraph among the non-blank paragraphs whose score is the
\* greatest score over the non-blank paragraphs, and it never returns a
\* blank paragraph.
C19_LowestIndexOfTopScore ==
  MatchReturned =>
    /\ (cleanAnchorText(args.anchorText) # << >> /\ NonBlank(args.paragraphTexts) # {}) =>
          ret[1].bestIndex = FirstTop(args.anchorText, args.paragraphTexts)
    /\ ret[1].bestIndex >= 0 => ret[1].bestIndex \in NonBlank(args.paragraphTexts)

\* C19 amended: the same where the greatest score is above 0; where the
\* anchor is blank, where no paragraph holds text, or where every non-blank
\* paragraph scores 0, no paragraph is returned (bestIndex -1, bestScore 0).
\* A blank paragraph is never returned, and bestScore is the greatest score.
C19_LowestIndexOfPositiveTopScore ==
  MatchReturned =>
    LET top == TopScore(args.anchorText, args.paragraphTexts)
    IN IF cleanAnchorText(args.anchorText) = << >> \/ top = 0
       THEN ret[1].bestIndex = -1 /\ ret[1].bestScore = 0
       ELSE /\ ret[1].bestIndex = FirstTop(args.anchorText, args.paragraphTexts)
            /\ ret[1].bestIndex \in NonBlank(args.paragraphTexts)
            /\ ret[1].bestScore = top

\* a blank paragraph and two paragraphs that tie at 100 on the anchor "b":
\* the first of the two is returned
C19_Witness ==
  /\ MatchReturned
  /\ args.paragraphTexts = << <<SP>>, <<"a", "b", SP, "c">>, <<"b">> >>
  /\ args.anchorText = <<"b">>
  /\ ret[1].bestIndex = 1
  /\ ret[1].bestScore = 100

\* the earlier details entries of a call whose comment went to the paragraph of entry d
EarlierEntriesOnParagraph(call, d) ==
  { e \in 1..(d - 1) :
      ParagraphOfComment(call, CommentIdOf(call, e)) = ParagraphOfComment(call, CommentIdOf(call, d)) }

\* the window scan finds a window of the normalized paragraph, starting at
\* a multiple of the step, on which the capped anchor scores 60 or more
ScanAccepts(normPara, normAnchor) ==
  LET scanNeedle == Slice(normAnchor, 0, NeedleCap)
      windowLen == Min(Max(Len(scanNeedle), MinWindow), MaxWindow)
  IN \E pos \in 0..Max(0, Len(normPara) - 1) :
       /\ pos % ScanStep = 0
       /\ PartialRatio(scanNeedle, Slice(normPara, pos, pos + windowLen)) >= AcceptScore

\* the first stage that succeeds, in the order substring, prefix, window scan
FirstStage(paraText, anchor) ==
  LET normPara == normalizeForFuzzySearch(paraText)
      normAnchor == normalizeForFuzzySearch(anchor)
      prefix == Trim(Slice(normAnchor, 0, PrefixLen))
  IN IF normAnchor # << >> /\ Includes(normPara, normAnchor) THEN "substring"
     ELSE IF Len(prefix) >= MinPrefixLen /\ Includes(normPara, prefix) THEN "prefix"
     ELSE IF normAnchor # << >> /\ ScanAccepts(normPara, normAnchor) THEN "fuzzy"
     ELSE "none"

\* C20: for every merged record the reported startMethod names the first
\* stage that succeeded, in the order substring search, prefix search (the
\* first 80 normalized characters of the anchor, of 12 characters at
\* least) and window scan (a score of 60 at least), and is "none" when none
\* did; approxStart is null exactly when startMethod is "none"; a record
\* with "none" is merged all the same, its comment anchored in the
\* paragraph at the index offset 0 gives, the first eligible child, moved
\* on past the indices earlier records took in that paragraph.
C20_FirstStageNamed ==
  MergeReturned =>
    \A d \in 1..Len(ret[1].details) :
      LET entry == ret[1].details[d]
          taken == { ret[1].details[e].anchorNodeIndex : e \in EarlierEntriesOnParagraph(ret[1], d) }
      IN /\ entry.startMethod = FirstStage(MatchedText(ret[1], d), AnchorOf(ret[1], d))
         /\ entry.approxStart = Null <=> entry.startMethod = "none"
         /\ entry.startMethod = "none" =>
              /\ \E p \in 1..Len(ret[1].documentDoc) :
                    \E k \in 1..Len(ret[1].documentDoc[p]) :
                      /\ ret[1].documentDoc[p][k].tag = "commentRangeStart"
                      /\ ret[1].documentDoc[p][k].id = CommentIdOf(ret[1], d)
              /\ entry.anchorNodeIndex \notin taken
              /\ \A n \in 0..(entry.anchorNodeIndex - 1) : n \in taken

\* the long anchor matched by its prefix at offset 4 and anchored at index
\* 0, "zz" matched by no stage and anchored at index 1, the next after the
\* index offset 0 gives, the long anchor once more
C20_Witness ==
  /\ MergeReturned
  /\ Len(ret[1].details) = 3
  /\ ret[1].details[1].startMethod = "prefix"
  /\ ret[1].details[1].approxStart = 4
  /\ ret[1].details[2].startMethod = "none"
  /\ ret[1].details[2].approxStart = Null
  /\ ret[1].details[2].anchorNodeIndex = 1
  /\ ret[1].details[3].startMethod = "prefix"

\* the positions at which a paragraph holds, consecutively, the range start
\* of comment id, one node, the range end of id and the reference run of id,
\* the other children being those of the paragraph before, or those and one
\* more child at the end, which is then the node in between
MarkerPositions(before, after, id) ==
  { at \in 1..(Len(after) - 3) :
      /\ after[at] = RangeStart(id)
      /\ after[at + 2] = RangeEnd(id)
      /\ after[at + 3] = createCommentReferenceRun(id)
      /\ \/ WithoutMarkers(after, at) = before
         \/ /\ at + 3 = Len(after)
            /\ WithoutMarkers(after, at) = Append(before, after[at + 1]) }

\* C21: the node a merged record's markers are placed around is a direct
\* child of the matched paragraph, in the WordprocessingML namespace, that is
\* neither w:pPr nor a comment range marker nor a run holding a comment
\* reference, whether the markers and reference runs of the paragraph came
\* with the input or from earlier records of the run; the markers are direct
\* children too, and every other child of the paragraph is left as it was,
\* so nothing is inserted inside a run.
C21_AnchorIsEligibleChild ==
  \A k \in 1..Len(log) :
    log[k].merged =>
      LET ats == MarkerPositions(log[k].before, log[k].after, log[k].commentId)
      IN /\ ats # {}
         /\ \A at \in ats :
              LET node == log[k].after[at + 1]
              IN /\ node.ns = W_NS
                 /\ node.tag \notin {"pPr", "commentRangeStart", "commentRangeEnd"}
                 /\ ~(node.tag = "r" /\ \E n \in 1..Len(node.desc) : node.desc[n].tag = "commentReference")

\* a record anchored in a paragraph that came with a range and a reference
\* run, and a record anchored around an existing child of a paragraph that
\* an earlier record of the run had put markers into
C21_Witness ==
  /\ \E k \in 1..Len(log) :
       /\ log[k].merged
       /\ log[k].before = ParaM
  /\ \E k \in 1..Len(log) :
       /\ log[k].merged
       /\ log[k].before # InputParagraph(log[k].bestIndex + 1)
       /\ Len(log[k].after) = Len(log[k].before) + 3
       /\ \E n \in 1..Len(log[k].before) : log[k].before[n].tag = "commentReference" \/
             \E m \in 1..Len(log[k].before[n].desc) : log[k].before[n].desc[m].tag = "commentReference"

\* C22: a merged record whose anchor index names no eligible direct child
\* of the paragraph (there is none, or probing went past the last) leaves
\* the paragraph as it was followed by the range start, one run holding one
\* w:t with a single space, the range end and the reference run; a record
\* whose index names an eligible child appends nothing; and the range start
\* of a record is never directly followed by its range end.
C22_SpaceRunSynthesized ==
  \A k \in 1..Len(log) :
    log[k].merged =>
      LET before == log[k].before
          after == log[k].after
          id == log[k].commentId
          eligible == Len(getDirectChildAnchorCandidates(before))
      IN /\ log[k].anchorIdx >= 0
         /\ log[k].anchorIdx >= eligible =>
              after = before \o <<RangeStart(id), Run(<<SP>>), RangeEnd(id), createCommentReferenceRun(id)>>
         /\ log[k].anchorIdx < eligible =>
              \E at \in 1..(Len(after) - 3) : WithoutMarkers(after, at) = before
         /\ \A at \in 1..(Len(after) - 1) :
              ~(after[at] = RangeStart(id) /\ after[at + 1] = RangeEnd(id))

\* two records on a paragraph without an eligible child: the first finds
\* none at index 0, the second is probed past the space run the first left
C22_Witness ==
  /\ Len(log) = 2
  /\ log[1].merged
  /\ log[1].before = ParaN
  /\ log[1].anchorIdx = 0
  /\ Len(log[1].after) = Len(ParaN) + 4
  /\ log[2].merged
  /\ Len(getDirectChildAnchorCandidates(log[2].before)) = 1
  /\ log[2].anchorIdx = 1
  /\ Len(log[2].after) = Len(log[2].before) + 4

RelationshipReturned == args # << >> /\ args.fn = "ensureCommentsRelationship" /\ ret # << >>

\* the integers n of the Ids of the form rId<digits> of a relationships part
RIdIntegers(rels) ==
  { StripZeros([k \in 1..(Len(rels[r].Id) - 3) |-> DigitVal(rels[r].Id[k + 3])]) :
      r \in { r \in 1..Len(rels) :
                /\ Len(rels[r].Id) >= 4
                /\ SubSeq(rels[r].Id, 1, 3) = <<"r", "I", "d">>
                /\ \A k \in 4..Len(rels[r].Id) : IsDigit(rels[r].Id[k]) } }

\* the largest of them, 0 when there is none
LargestRId(rels) ==
  IF RIdIntegers(rels) = {} THEN <<0>>
  ELSE CHOOSE m \in RIdIntegers(rels) : \A n \in RIdIntegers(rels) : ~NumLess(m, n)

\* C23: when the relationships part holds no relationship of the comments
\* type, the part returned is the part given followed by one relationship of
\* that type whose Target is comments.xml and whose Id is "rId" followed by
\* the decimal digits of m + 1, m being the largest n over the Ids rId<n> of
\* the part (0 when there is none); that Id is the Id of no relationship of
\* the part given.
C23_NextRelationshipId ==
  (/\ RelationshipReturned
   /\ \A k \in 1..Len(args.documentRelsDoc) : args.documentRelsDoc[k].Type # COMMENTS_REL_TYPE) =>
    LET rels == args.documentRelsDoc
        added == ret[1][Len(ret[1])]
    IN /\ ret[1] = Append(rels, added)
       /\ added.Type = COMMENTS_REL_TYPE
       /\ added.Target = "comments.xml"
       /\ added.Id = <<"r", "I", "d">> \o ToDigits(PlusOne(LargestRId(rels)))
       /\ \A k \in 1..Len(rels) : rels[k].Id # added.Id

\* the number of merged iterations among the first k of the history
MergedUpTo(k) == Cardinality({ j \in 1..k : log[j].merged })

\* the comment the k-th iteration of the history added to the comments tree
CommentOf(k) == commentsDoc[Len(InputComments) + MergedUpTo(k)]

\* s without the whitespace at its two ends
Trimmed(s) ==
  LET solid == { n \in 1..Len(s) : ~IsSpace(s[n]) }
  IN IF solid = {} THEN << >>
     ELSE SubSeq(s, CHOOSE n \in solid : \A m \in solid : n <= m,
                    CHOOSE n \in solid : \A m \in solid : m <= n)

\* C24: the comment added for a merged record has the ID given to the
\* record; its text is the record's comment_text (nothing when absent), with
\* "[", the label, "]" and a space before it exactly when edit_type_label is
\* present and not empty; its author is the record's author without the
\* whitespace at its ends, or "Reviewer" when the author is absent or blank.
C24_CommentTextAndAuthor ==
  \A k \in 1..Len(log) :
    log[k].merged =>
      LET item == items[log[k].index + 1]
          text == IF item.comment_text = Absent THEN << >> ELSE item.comment_text
          label == item.edit_type_label
      IN /\ CommentOf(k).id = log[k].commentId
         /\ CommentOf(k).text =
              IF label # Absent /\ Len(label) > 0
              THEN <<"[">> \o label \o <<"]", SP>> \o text
              ELSE text
         /\ CommentOf(k).author =
              IF item.author = Absent \/ Trimmed(item.author) = << >>
              THEN REVIEWER
              ELSE Trimmed(item.author)

\* a run that merged a record with a label and an author between spaces
\* and a record with an empty label and an empty author
C24_Witness ==
  /\ Len(log) = 2
  /\ log[1].merged
  /\ log[2].merged
  /\ CommentOf(1).text = <<"[", "L", "]", SP, "n">>
  /\ CommentOf(1).author = <<"K">>
  /\ items[2].edit_type_label = << >>
  /\ items[2].author = << >>
  /\ CommentOf(2).text = <<NUL>>
  /\ CommentOf(2).author = REVIEWER

\* a child a comment can be anchored to
EligibleChild(el) ==
  /\ el.ns = W_NS
  /\ el.tag \notin {"pPr", "commentRangeStart", "commentRangeEnd"}
  /\ ~(el.tag = "r" /\ \E n \in 1..Len(el.desc) : el.desc[n].ns = W_NS /\ el.desc[n].tag = "commentReference")

\* the position among the children of the marker tag of comment id
MarkerAt(children, tag, id) ==
  CHOOSE n \in 1..Len(children) : children[n].tag = tag /\ children[n].id = id

\* the index the child at position n has among the eligible children
EligibleIndex(children, n) == Cardinality({ m \in 1..(n - 1) : EligibleChild(children[m]) })

\* the children of the paragraph that holds the markers of details entry d
ChildrenOfEntry(call, d) == call.documentDoc[ParagraphOfComment(call, CommentIdOf(call, d))]

\* C25: at the end of a run, the markers of every merged record stand
\* directly around one node, an eligible child of the matched paragraph
\* whose index among the eligible children of the paragraph is the
\* anchorNodeIndex reported for the record (the index it had right after the
\* insertion, which no other insertion changes), and no two records of the
\* run have their markers around the same node.
C25_IndexNamesWrappedNode ==
  MergeReturned =>
    /\ \A d \in 1..Len(ret[1].details) :
         LET children == ChildrenOfEntry(ret[1], d)
             start == MarkerAt(children, "commentRangeStart", CommentIdOf(ret[1], d))
             end == MarkerAt(children, "commentRangeEnd", CommentIdOf(ret[1], d))
         IN /\ end = start + 2
            /\ EligibleChild(children[start + 1])
            /\ EligibleIndex(children, start + 1) = ret[1].details[d].anchorNodeIndex
    /\ \A d, e \in 1..Len(ret[1].details) :
         (d # e /\ ParagraphOfComment(ret[1], CommentIdOf(ret[1], d)) = ParagraphOfComment(ret[1], CommentIdOf(ret[1], e)))
           => \E n \in 1..Len(ChildrenOfEntry(ret[1], d)) :
                LET children == ChildrenOfEntry(ret[1], d)
                    ds == MarkerAt(children, "commentRangeStart", CommentIdOf(ret[1], d))
                    de == MarkerAt(children, "commentRangeEnd", CommentIdOf(ret[1], d))
                    es == MarkerAt(children, "commentRangeStart", CommentIdOf(ret[1], e))
                    ee == MarkerAt(children, "commentRangeEnd", CommentIdOf(ret[1], e))
                IN de < es \/ ee < ds

\* the largest ID of the comments that came with the package, 0 when none is above 0
LargestInputId ==
  SetMax({0} \cup { InputComments[k].id : k \in { k \in 1..Len(InputComments) : InputComments[k].numeric } })

\* the children of some paragraph hold the range start, the range end and a
\* run with the reference of comment id
HasMarkers(doc, id) ==
  \E p \in 1..Len(doc) :
    /\ \E n \in 1..Len(doc[p]) : doc[p][n].tag = "commentRangeStart" /\ doc[p][n].id = id
    /\ \E n \in 1..Len(doc[p]) : doc[p][n].tag = "commentRangeEnd" /\ doc[p][n].id = id
    /\ \E n \in 1..Len(doc[p]) :
         /\ doc[p][n].tag = "r"
         /\ \E m \in 1..Len(doc[p][n].desc) :
              doc[p][n].desc[m].tag = "commentReference" /\ doc[p][n].desc[m].id = id

ScoresOf(k) ==
  { PartialRatio(cleanAnchorText(OrElse(items[k].anchor_text, << >>)), paragraphTexts[p + 1]) :
      p \in NonBlank(paragraphTexts) }

\* C27: a record is merged exactly when its anchor, with whitespace collapsed
\* and trimmed, is not empty and some paragraph whose text is not blank
\* scores above 0 against it; the score of a merged record is the greatest
\* of these scores and lies in 1..100, whatever its size, and its details
\* entry carries it.
C27_MergedIffSomeScoreAboveZero ==
  \A k \in 1..Len(log) :
    /\ log[k].merged <=>
         /\ cleanAnchorText(OrElse(items[k].anchor_text, << >>)) # << >>
         /\ \E s \in ScoresOf(k) : s > 0
    /\ log[k].merged =>
         /\ log[k].bestScore \in 1..100
         /\ log[k].bestScore = SetMax(ScoresOf(k))
         /\ details[MergedUpTo(k)].score = log[k].bestScore

\* the anchor "ab" against a document whose best paragraph scores 50 is
\* merged, and an anchor that scores 0 on every paragraph is skipped
C27_Witness ==
  /\ Len(log) = 2
  /\ log[1].merged /\ log[1].bestScore = 50
  /\ ~log[2].merged /\ cleanAnchorText(OrElse(items[2].anchor_text, << >>)) # << >>
  /\ NonBlank(paragraphTexts) # {}
  /\ ScoresOf(2) = {0}

\* the calls of callWorker so far, in order: call k made promise k
Issued(k) == posted[k].requestId

\* what holds of the broker at every moment
BrokerInvariant ==
  /\ constructed <= 1
  /\ worker = IF constructed = 0 THEN << >> ELSE <<1>>
  /\ Len(promises) = Len(posted) /\ Len(settlements) = Len(posted)
  /\ nextRequestId > 0
  /\ \A k \in 1..Len(posted) :
       /\ posted[k].worker = 1
       /\ Issued(k) < nextRequestId
       /\ \A j \in 1..(k - 1) : Issued(j) < Issued(k)
       /\ Len(settlements[k]) <= 1
       /\ IF settlements[k] = << >>
          THEN /\ promises[k] = "pending"
               /\ Issued(k) \in DOMAIN pending
               /\ pending[Issued(k)] = k
          ELSE /\ settlements[k][1].requestId = Issued(k)
               /\ promises[k] = (IF settlements[k][1].type = "error" THEN "rejected"
                                 ELSE IF settlements[k][1].type = "result" THEN "text" ELSE "true")
               /\ Issued(k) \notin DOMAIN pending
  /\ DOMAIN pending \subseteq { Issued(k) : k \in 1..Len(posted) }

\* what a step that handles a worker message does: nothing when the table
\* has no entry under its requestId, else it removes that entry and settles
\* the promise of that entry, and no other
MessageStep ==
  (handled' # << >> /\ nextRequestId' = nextRequestId /\ UNCHANGED preloadVars) =>
    LET id == handled'[1].msg.requestId
    IN /\ UNCHANGED <<worker, constructed, posted>>
       /\ IF id \notin DOMAIN pending
          THEN UNCHANGED <<pending, promises, settlements>>
          ELSE /\ DOMAIN pending' = DOMAIN pending \ {id}
               /\ \A k \in DOMAIN pending' : pending'[k] = pending[k]
               /\ \A q \in 1..Len(promises) :
                    IF q = pending[id]
                    THEN /\ promises[q] = "pending" /\ promises'[q] # "pending"
                         /\ settlements'[q] = Append(settlements[q], handled'[1].msg)
                    ELSE promises'[q] = promises[q] /\ settlements'[q] = settlements[q]

\* C28: at most one Worker is ever constructed; every call of callWorker is
\* registered in the pending table under a request ID greater than every ID
\* issued before; a worker message settles only the entry under its
\* requestId and removes it, so that no promise is settled twice, and a
\* message whose requestId has no entry changes nothing.
C28_OneWorkerMonotonicIdsMatchingSettle == []BrokerInvariant /\ [][MessageStep]_vars

\* two calls were made on one worker; the first was rejected by an error
\* message, and the same message came again and found no entry
C28_Witness ==
  /\ constructed = 1
  /\ Len(posted) = 2 /\ nextRequestId = 3
  /\ promises = <<"rejected", "pending">>
  /\ settlements[1] = <<[type |-> "error", requestId |-> 1]>>
  /\ DOMAIN pending = {2}
  /\ handled = <<[msg |-> [type |-> "error", requestId |-> 1], known |-> FALSE]>>

\* the runs of the preload that have not settled
ActiveRuns == { r \in 1..Len(runs) : runs[r].pc \notin {"resolved", "rejected"} }

\* the calls of startOfflinePreload, among the first c, that started a run
StartingCalls(c) ==
  { k \in 1..c : preloadCalls[k].status \notin {"none", "ready"} /\ preloadCalls[k].inFlight = << >> }

\* the steps a run goes through before it sets ready, in order
StepsInOrder ==
  IF env.prefetchRoutes THEN <<"sw", "shell", "prefetch", "load", "warmup">>
  ELSE <<"sw", "shell", "load", "warmup">>

IsPrefix(a, b) == Len(a) <= Len(b) /\ SubSeq(b, 1, Len(a)) = a

StatusNow == IF memoryState = << >> THEN "unread" ELSE memoryState[1].status

\* C30: at most one run of the preload is unsettled at a time, and inFlight
\* is its promise, null when there is none (so a run that failed can be
\* followed by another); a call made while a run is in flight returns that
\* run's promise and starts nothing, a call made when the status is ready
\* returns nothing and starts nothing, and every other call in a browser
\* starts the next run; the status is ready only when a run has gone
\* through service-worker readiness, the shell warm-up, the optional route
\* prefetch, the Moonshine load call and the warmup call, each succeeding,
\* in that order, or when ready was read from localStorage and no run was
\* started.
C30_OnePreloadAtATime ==
  /\ Cardinality(ActiveRuns) <= 1
  /\ inFlight = (IF ActiveRuns = {} THEN << >> ELSE <<CHOOSE r \in ActiveRuns : TRUE>>)
  /\ Len(runs) = Cardinality(StartingCalls(Len(preloadCalls)))
  /\ \A c \in 1..Len(preloadCalls) :
       preloadCalls[c].returned =
         (IF preloadCalls[c].status \in {"none", "ready"} THEN << >>
          ELSE IF preloadCalls[c].inFlight # << >> THEN preloadCalls[c].inFlight
          ELSE <<Cardinality(StartingCalls(c))>>)
  /\ \A r \in 1..Len(runs) :
       /\ IsPrefix(runs[r].steps, StepsInOrder)
       /\ runs[r].pc = "resolved" =>
            /\ runs[r].steps = StepsInOrder
            /\ posted[runs[r].req - 1].message.type = "load"
            /\ posted[runs[r].req].message.type = "warmup"
            /\ promises[runs[r].req - 1] \notin {"pending", "rejected"}
            /\ promises[runs[r].req] \notin {"pending", "rejected"}
            /\ \A q \in (r + 1)..Len(runs) : FALSE
       /\ runs[r].pc \in {"resolved", "rejected"} => \A q \in 1..(r - 1) : runs[q].pc = "rejected"
  /\ StatusNow = "ready" <=>
       \/ Len(runs) > 0 /\ runs[Len(runs)].pc = "resolved"
       \/ Len(runs) = 0 /\ memoryState # << >> /\ storage = <<StoredState("ready", 100)>>

\* a call starts run 1, a second call made while it is in flight gets the
\* promise of run 1, run 1 fails on the service worker, a third call starts
\* run 2, and run 2 goes through every step and sets ready
C30_Witness ==
  /\ Len(preloadCalls) = 3
  /\ preloadCalls[1].returned = <<1>> /\ preloadCalls[1].inFlight = << >>
  /\ preloadCalls[2].returned = <<1>> /\ preloadCalls[2].inFlight = <<1>>
  /\ preloadCalls[3].returned = <<2>> /\ preloadCalls[3].status = "error"
  /\ runs[1].pc = "rejected" /\ runs[1].steps = << >>
  /\ runs[2].pc = "resolved" /\ runs[2].steps = <<"sw", "shell", "prefetch", "load", "warmup">>
  /\ inFlight = << >>
  /\ memoryState = <<State("ready", 100)>>

\* the handler of the load request with this request ID
LoadTask(requestId) == CHOOSE t \in 1..Len(tasks) : tasks[t].requestId = requestId

\* C29: whenever the worker posts 'loaded' for a load request, the model it
\* holds at that moment was constructed with the modelURL and the precision
\* of that request, and the loadModel() of that model has completed.
C29_LoadedMeansCurrentModelLoaded ==
  \A k \in 1..Len(outbox) :
    outbox[k].type = "loaded" =>
      LET msg == tasks[LoadTask(outbox[k].requestId)].msg
      IN /\ outbox[k].model # << >>
         /\ models[outbox[k].model[1]].modelURL = msg.modelURL
         /\ models[outbox[k].model[1]].precision = (IF msg.precision = << >> THEN "quantized" ELSE msg.precision[1])
         /\ outbox[k].load = "done"

====
